---- MODULE Spec2Model ----
(***************************************************************************)
(* misskey-backup: the scheduled backup pipeline (scheduler -> CreateBackup *)
(* -> R2 storage -> Discord notification) and the storage client's retry   *)
(* policy, as state machines translated from the Go sources.               *)
(*                                                                         *)
(* Spec      : the process from start-up on: NewService, the cron          *)
(*             scheduler, the overlapping runBackup goroutines, the local  *)
(*             working directory, the remote bucket and the webhook sink.  *)
(* SpecRetry : one call of R2Storage.retryWithBackoff.                     *)
(* Time is counted in minutes; minute 0 is the start of the process.       *)
(***************************************************************************)
EXTENDS Integers, Sequences, FiniteSets, TLC

\* ------------------------------------------------------------------ bounds
\* runBackup goroutines the model follows (cron firings + the initial run)
MaxRuns == 2
\* last minute of the model's clock
MaxTime == 32
\* keys one ListObjectsV2 response carries (the store's page size, 1000 at
\* the real service, scaled down)
ListMaxKeys == 2
\* attempts of the operation that SpecRetry follows
MaxCalls == 3

\* --------------------------------------------------------- program constants
\* context.WithTimeout(context.Background(), 30*time.Minute)
RunTimeout == 30
\* timeUntilNext > 30*time.Minute
InitialBackupThreshold == 30
\* getEnvAsInt("UPLOAD_TIMEOUT", 120), minutes
UploadTimeout == 120
\* getEnvAsInt("BACKUP_RETENTION", 30), days
BackupRetention == 30
\* AddDate(0, 0, -days): one day in minutes
MinutesPerDay == 1440
\* nonceSize = aes.BlockSize
NonceSize == 16
\* authTagSize = sha256.Size
AuthTagSize == 32
\* DeriveEncryptionKeys: len(decoded) < 32
MinKeyBytes == 32

Min(a, b) == IF a <= b THEN a ELSE b

\* ------------------------------------------------------------ strings, paths
Pad2(n) == IF n < 10 THEN "0" \o ToString(n) ELSE ToString(n)

\* time.Now().Format("2006-01-02_15-04") for minute m of the model's clock;
\* minute 0 is 2025-08-28 21:35 local time.
Timestamp(m) ==
    LET total == 21 * 60 + 35 + m
    IN  "2025-08-" \o Pad2(28 + total \div MinutesPerDay) \o "_"
        \o Pad2((total \div 60) % 24) \o "-" \o Pad2(total % 60)

\* path.Clean of an element that has no other flaw than slashes at its end
RECURSIVE CleanEnd(_)
CleanEnd(a) ==
    IF Len(a) > 1 /\ SubSeq(a, Len(a), Len(a)) = "/"
    THEN CleanEnd(SubSeq(a, 1, Len(a) - 1))
    ELSE a

\* path.Join / filepath.Join on two elements: empty elements are ignored
\* and the result is cleaned
PathJoin(a, b) ==
    IF a = "" THEN CleanEnd(b)
    ELSE IF b = "" THEN CleanEnd(a)
    ELSE CleanEnd(a \o "/" \o b)

HasPrefix(s, p) == Len(s) >= Len(p) /\ SubSeq(s, 1, Len(p)) = p

\* ------------------------------------------------------------ key derivation
Base64Chars ==
    {"A","B","C","D","E","F","G","H","I","J","K","L","M","N","O","P","Q","R",
     "S","T","U","V","W","X","Y","Z","a","b","c","d","e","f","g","h","i","j",
     "k","l","m","n","o","p","q","r","s","t","u","v","w","x","y","z","0","1",
     "2","3","4","5","6","7","8","9","+","/"}

CharAt(s, i) == SubSeq(s, i, i)

\* number of trailing "=" of s (at most 2 are looked at)
B64Padding(s) ==
    IF Len(s) >= 2 /\ CharAt(s, Len(s)) = "=" /\ CharAt(s, Len(s) - 1) = "=" THEN 2
    ELSE IF Len(s) >= 1 /\ CharAt(s, Len(s)) = "=" THEN 1
    ELSE 0

\* the decoder skips the characters \r and \n of its input
RECURSIVE StripNewlines(_)
StripNewlines(s) ==
    IF \A i \in 1..Len(s) : CharAt(s, i) \notin {"\n", "\r"} THEN s
    ELSE IF CharAt(s, 1) \in {"\n", "\r"} THEN StripNewlines(SubSeq(s, 2, Len(s)))
    ELSE CharAt(s, 1) \o StripNewlines(SubSeq(s, 2, Len(s)))

\* the length of the bytes that padded standard base64 text stands for, or
\* -1 when the text is not padded standard base64
B64TextLen(s) ==
    IF /\ Len(s) % 4 = 0
       /\ \A i \in 1..(Len(s) - B64Padding(s)) : CharAt(s, i) \in Base64Chars
    THEN (Len(s) \div 4) * 3 - B64Padding(s)
    ELSE -1

\* base64.StdEncoding.DecodeString: the length of the decoded bytes, or -1
\* when it returns an error
B64DecodedLen(s) == B64TextLen(StripNewlines(s))

\* a resolution that takes every key material as raw text
ResolveKeyMaterial_Raw(keyMaterial) ==
    [form |-> "raw", text |-> keyMaterial, len |-> Len(keyMaterial)]

\* the resolved byte string: its origin and its length
ResolveKeyMaterial(keyMaterial) ==
    IF B64DecodedLen(keyMaterial) > 0
    THEN [form |-> "base64", text |-> keyMaterial, len |-> B64DecodedLen(keyMaterial)]
    ELSE [form |-> "raw", text |-> keyMaterial, len |-> Len(keyMaterial)]

\* a length gate that is applied to raw text only
InsufficientKey_RawOnly(resolved) ==
    resolved.form = "raw" /\ resolved.len < MinKeyBytes

\* len(decoded) < 32
InsufficientKey(resolved) == resolved.len < MinKeyBytes

DeriveEncryptionKeys(keyMaterial) ==
    IF keyMaterial = ""
    THEN [err |-> "encryption key is not set in BACKUP_ENCRYPTION_KEY",
          encKey |-> <<>>, hmacKey |-> <<>>]
    ELSE IF InsufficientKey(ResolveKeyMaterial(keyMaterial))
    THEN [err |-> "encryption key must be at least 32 bytes after base64 decoding",
          encKey |-> <<>>, hmacKey |-> <<>>]
    ELSE LET mainKey == <<"sha256", ResolveKeyMaterial(keyMaterial)>>
         IN  [err |-> "", encKey |-> mainKey,
              hmacKey |-> <<"sha256", mainKey, "hmac">>]

\* ------------------------------------------------------------- configuration
NoKey == ""
RawKey == "correct-horse-battery-staple-0001"

BaseConfig ==
    [PostgresDB |-> "misskey", BackupDir |-> "/app/backups",
     BackupRetention |-> BackupRetention, R2Endpoint |-> "https://acc.r2.cloudflarestorage.com",
     R2BucketName |-> "backup", R2Prefix |-> "bk", UploadTimeout |-> UploadTimeout,
     DiscordWebhookURL |-> "https://discord.example/hook"]

\* a configuration as Load() returns it and main overrides it: the key,
\* whether notifications are on, and the cron schedule (minutes from
\* start-up to the first firing, minutes between firings)
Config(key, notification, cronFirst, cronPeriod) ==
    [f \in DOMAIN BaseConfig \cup {"EncryptionKey", "Notification", "CronFirst", "CronPeriod"} |->
       CASE f = "EncryptionKey" -> key
         [] f = "Notification" -> notification
         [] f = "CronFirst" -> cronFirst
         [] f = "CronPeriod" -> cronPeriod
         [] OTHER -> BaseConfig[f]]

\* ------------------------------------------------------------------- state
VARIABLES
    cfg,        \* *config.Config
    proc,       \* the process: "boot", "serving", "fatal", "crashed", "exited"
    svc,        \* *backup.Service built by NewService
    now,        \* wall clock, minutes
    cronNext,   \* cron.Entry(entryID).Next
    initial,    \* the delayed initial-run goroutine is sleeping
    started,    \* number of runBackup goroutines started
    run,        \* run[r]: the state of the r-th runBackup goroutine
    fs,         \* the local working directory: path -> size
    store,      \* the bucket: a set of [key, ts, mod]
    sink,       \* the webhook: the POSTs it received, as [run, kind]
    \* ---- one call of retryWithBackoff (SpecRetry)
    rt,
    \* ---- one call of R2Storage.Upload (SpecUpload)
    up,
    \* ---- one container under EncryptFile / DecryptFile (SpecCodec)
    cx,
    \* ---- one call of DeriveEncryptionKeys (SpecKeys)
    kd,
    \* ---- one run of the program in restore mode (SpecRestore)
    rs,
    \* ---- one call of R2Storage.List and the Delete of a listed name (SpecList)
    ls,
    \* ---- main from the wait for a signal to its return (SpecStop)
    sd

schedVars == <<cfg, proc, svc, now, cronNext, initial, started, run, fs, store, sink>>
vars == <<cfg, proc, svc, now, cronNext, initial, started, run, fs, store, sink, rt, up, cx, kd, rs, ls, sd>>

Runs == 1..MaxRuns

NilService == [storage |-> FALSE, encKey |-> <<>>, hmacKey |-> <<>>]

\* a *BackupResult; nil |-> TRUE is the nil pointer
NilResult ==
    [nil |-> TRUE, Success |-> FALSE, FileName |-> "", FileSize |-> 0,
     Duration |-> 0, Error |-> "", DownloadURL |-> ""]
EmptyResult == [NilResult EXCEPT !.nil = FALSE]

IdleRun ==
    [pc |-> "idle", trigger |-> "none", start |-> 0, deadline |-> 0,
     upDeadline |-> 0, stages |-> <<>>, failedAt |-> "none",
     result |-> NilResult, err |-> "", duration |-> 0,
     upPath |-> "", upName |-> "", upSize |-> 0, url |-> "", size |-> 0,
     cutoff |-> 0, listed |-> <<>>, todo |-> <<>>, delReq |-> <<>>,
     log |-> {}, outcome |-> "", handed |-> <<>>]

\* ------------------------------------------------------------ local files
DumpSize == 1000
CompressedSize == 400

RemovePath(f, p) == [q \in (DOMAIN f) \ {p} |-> f[q]]
WriteFile(f, p, sz) == [q \in (DOMAIN f) \cup {p} |-> IF q = p THEN sz ELSE f[q]]
Exists(f, p) == p \in DOMAIN f

BackupFileName(r) == cfg.PostgresDB \o "_" \o Timestamp(run[r].start) \o ".dump"
BackupFilePath(r) == PathJoin(cfg.BackupDir, BackupFileName(r))
CompressedFilePath(r) == BackupFilePath(r) \o ".zst"
EncryptedFilePath(r) == CompressedFilePath(r) \o ".enc"
RunFiles(r) == {BackupFilePath(r), CompressedFilePath(r), EncryptedFilePath(r)}

\* a deferred removal that covers the raw and the compressed file only
DeferredCleanup_TwoFiles(f, r) ==
    RemovePath(RemovePath(f, BackupFilePath(r)), CompressedFilePath(r))

\* defer func() { os.Remove(backupFilePath); os.Remove(compressedFilePath);
\*                os.Remove(encryptedFilePath) }()
DeferredCleanup(f, r) ==
    RemovePath(RemovePath(RemovePath(f, BackupFilePath(r)), CompressedFilePath(r)),
               EncryptedFilePath(r))

\* ------------------------------------------------------------ start-up
\* backup.NewService(cfg, restoreOnly)
NewService(c, restoreOnly) ==
    LET keys == DeriveEncryptionKeys(c.EncryptionKey)
    IN  IF keys.err # ""
        THEN [err |-> "failed to prepare encryption keys: " \o keys.err, svc |-> NilService]
        ELSE [err |-> "",
              svc |-> [storage |-> ~restoreOnly, encKey |-> keys.encKey,
                       hmacKey |-> keys.hmacKey]]

\* Scheduler.shouldRunInitialBackup
ShouldRunInitialBackup(nextRun, t) == nextRun - t > InitialBackupThreshold

\* main without --restore-url: NewService, NewScheduler, go scheduler.Start(ctx)
Boot ==
    /\ proc = "boot"
    /\ LET made == NewService(cfg, FALSE)
       IN  IF made.err # ""
           THEN /\ proc' = "fatal"          \* logrus.Fatalf
                /\ UNCHANGED <<svc, cronNext, initial>>
           ELSE /\ proc' = "serving"
                /\ svc' = made.svc
                /\ cronNext' = now + cfg.CronFirst
                /\ initial' = ShouldRunInitialBackup(now + cfg.CronFirst, now)
    /\ UNCHANGED <<cfg, now, started, run, fs, store, sink, rt, up, cx, kd, rs, ls, sd>>

\* an entry of CreateBackup without the check of the storage
EnterRun_NoGuard(trigger, mkdirErr) ==
    [IdleRun EXCEPT !.trigger = trigger, !.start = now,
                    !.deadline = now + RunTimeout,
                    !.pc = "dump", !.stages = <<"dump">>, !.result = EmptyResult]

\* ------------------------------------------------------------ runBackup
\* runBackup up to the point where CreateBackup blocks in pg_dump
EnterRun(trigger, mkdirErr) ==
    LET base == [IdleRun EXCEPT !.trigger = trigger, !.start = now,
                                !.deadline = now + RunTimeout]
    IN  IF ~svc.storage
        THEN [base EXCEPT !.pc = "notify", !.outcome = "failure",
                          !.err = "storage is not initialized"]
        ELSE IF mkdirErr
        THEN [base EXCEPT !.pc = "notify", !.outcome = "failure",
                          !.err = "failed to create backup directory: permission denied"]
        ELSE [base EXCEPT !.pc = "dump", !.stages = <<"dump">>,
                          !.result = EmptyResult]

\* the cron goroutine: at the entry's Next time, go s.runBackup()
CronFire ==
    /\ proc = "serving"
    /\ now = cronNext
    /\ started < MaxRuns
    /\ \E mkdirErr \in BOOLEAN :
         run' = [run EXCEPT ![started + 1] = EnterRun("cron", mkdirErr)]
    /\ started' = started + 1
    /\ cronNext' = cronNext + cfg.CronPeriod
    /\ UNCHANGED <<cfg, proc, svc, now, initial, fs, store, sink, rt, up, cx, kd, rs, ls, sd>>

\* go func() { time.Sleep(5 * time.Second); s.runBackup() }()
InitialRun ==
    /\ proc = "serving"
    /\ initial
    /\ started < MaxRuns
    /\ \E mkdirErr \in BOOLEAN :
         run' = [run EXCEPT ![started + 1] = EnterRun("initial", mkdirErr)]
    /\ started' = started + 1
    /\ initial' = FALSE
    /\ UNCHANGED <<cfg, proc, svc, now, cronNext, fs, store, sink, rt, up, cx, kd, rs, ls, sd>>

\* the goroutines that have not returned yet
Active(r) == run[r].pc \notin {"idle", "done", "panicked"}

\* the instants at which a timer of the process expires: the cron entry's
\* Next and the deadlines of the contexts of the runs in progress
Timers ==
    {t \in {cronNext} : started < MaxRuns}
        \cup {run[r].deadline : r \in {q \in Runs : Active(q)}}

\* time passes until the next timer expires; a due firing of the cron timer
\* or of the 5 s sleep is not overtaken by the clock, and neither are the
\* steps of a run that wait for nothing: os.Stat and the call of the
\* notification right after CreateBackup returned
Tick ==
    /\ proc = "serving"
    /\ started < MaxRuns => (now # cronNext /\ ~initial)
    /\ \A r \in Runs : run[r].pc \notin {"stat", "notify"}
    /\ \E t \in Timers :
         /\ t > now
         /\ t <= MaxTime
         /\ \A u \in Timers : u > now => t <= u
         /\ now' = t
    /\ UNCHANGED <<cfg, proc, svc, cronNext, initial, started, run, fs, store, sink, rt, up, cx, kd, rs, ls, sd>>

\* ------------------------------------------------------------ CreateBackup
\* a stage error that is recorded without returning from CreateBackup
Failed_NoReturn(rec, stage, msg) ==
    [rec EXCEPT !.failedAt = stage, !.err = msg]

\* return result, result.Error with the deferred removals
Failed(rec, stage, msg) ==
    [rec EXCEPT !.pc = "notify", !.failedAt = stage, !.outcome = "failure",
                !.result = [EmptyResult EXCEPT !.Error = msg], !.err = msg,
                !.duration = now - rec.start]

\* an extension that is ".zst" whatever the configuration
Extension_Zst == ".zst"

UseFilePath(r) ==
    IF cfg.EncryptionKey # "" THEN EncryptedFilePath(r) ELSE CompressedFilePath(r)
Extension == IF cfg.EncryptionKey # "" THEN ".zst.enc" ELSE ".zst"
\* s.storage.Upload(ctx, encryptedFilePath, backupFileName+".zst.enc")
UploadLocalPath(r) == EncryptedFilePath(r)
UploadRemoteName(r) == BackupFileName(r) \o ".zst.enc"

\* a return of nil whose result was left with Success = false
Succeeded_Unmarked(rec, r) ==
    [rec EXCEPT !.pc = "notify", !.outcome = "success",
                !.result = [EmptyResult EXCEPT !.FileName = BackupFileName(r) \o Extension,
                                               !.FileSize = rec.size,
                                               !.Duration = now - rec.start,
                                               !.DownloadURL = rec.url],
                !.err = ""]

\* result.Success = true ... return result, nil
Succeeded(rec, r) ==
    [rec EXCEPT !.pc = "notify", !.outcome = "success",
                !.result = [nil |-> FALSE, Success |-> TRUE,
                            FileName |-> BackupFileName(r) \o Extension,
                            FileSize |-> rec.size,
                            Duration |-> now - rec.start, Error |-> "",
                            DownloadURL |-> rec.url],
                !.err = ""]

\* s.createPostgresBackup(backupFilePath): pg_dump has exited
DumpDone(r) ==
    /\ proc = "serving"
    /\ run[r].pc = "dump"
    /\ \E ok \in BOOLEAN :
         IF ok
         THEN /\ fs' = WriteFile(fs, BackupFilePath(r), DumpSize)
              /\ run' = [run EXCEPT ![r].pc = "compress",
                                    ![r].stages = Append(@, "compress")]
         ELSE /\ fs' = DeferredCleanup(WriteFile(fs, BackupFilePath(r), 0), r)
              /\ run' = [run EXCEPT ![r] = Failed(@, "dump",
                            "failed to create PostgreSQL backup: exit status 1")]
    /\ UNCHANGED <<cfg, proc, svc, now, cronNext, initial, started, store, sink, rt, up, cx, kd, rs, ls, sd>>

\* the stage that follows a successful compression
StageAfterCompress == IF cfg.EncryptionKey # "" THEN "encrypt" ELSE "stat"

\* s.compressFile(backupFilePath, compressedFilePath): zstd has exited
CompressDone(r) ==
    /\ proc = "serving"
    /\ run[r].pc = "compress"
    /\ \E ok \in BOOLEAN :
         IF ok /\ Exists(fs, BackupFilePath(r))
         THEN /\ fs' = WriteFile(fs, CompressedFilePath(r), CompressedSize)
              /\ run' = [run EXCEPT ![r].pc = StageAfterCompress,
                                    ![r].stages = IF StageAfterCompress = "encrypt"
                                                  THEN Append(@, "encrypt") ELSE @]
         ELSE /\ fs' = DeferredCleanup(fs, r)
              /\ run' = [run EXCEPT ![r] = Failed(@, "compress",
                            "failed to compress backup file: exit status 1")]
    /\ UNCHANGED <<cfg, proc, svc, now, cronNext, initial, started, store, sink, rt, up, cx, kd, rs, ls, sd>>

\* storage.EncryptFile(compressedFilePath, encryptedFilePath, encKey, hmacKey)
EncryptDone(r) ==
    /\ proc = "serving"
    /\ run[r].pc = "encrypt"
    /\ \E ok \in BOOLEAN :
         IF ok /\ Exists(fs, CompressedFilePath(r))
         THEN /\ fs' = WriteFile(fs, EncryptedFilePath(r),
                                 NonceSize + fs[CompressedFilePath(r)] + AuthTagSize)
              /\ run' = [run EXCEPT ![r].pc = "stat"]
         ELSE /\ fs' = DeferredCleanup(WriteFile(fs, EncryptedFilePath(r), 0), r)
              /\ run' = [run EXCEPT ![r] = Failed(@, "encrypt",
                            "failed to encrypt backup file: write error")]
    /\ UNCHANGED <<cfg, proc, svc, now, cronNext, initial, started, store, sink, rt, up, cx, kd, rs, ls, sd>>

\* os.Stat(useFilePath), then the call of s.storage.Upload
Stat(r) ==
    /\ proc = "serving"
    /\ run[r].pc = "stat"
    /\ \E ioErr \in BOOLEAN :
         IF ioErr \/ ~Exists(fs, UseFilePath(r))
         THEN /\ fs' = DeferredCleanup(fs, r)
              /\ run' = [run EXCEPT ![r] = Failed(@, "stat",
                            "failed to get file info: stat failed")]
         ELSE /\ fs' = fs
              /\ run' = [run EXCEPT ![r].pc = "upload",
                                    ![r].size = fs[UseFilePath(r)],
                                    ![r].upPath = UploadLocalPath(r),
                                    ![r].upName = UploadRemoteName(r),
                                    ![r].upDeadline =
                                        Min(run[r].deadline, now + cfg.UploadTimeout),
                                    ![r].stages = Append(@, "upload")]
    /\ UNCHANGED <<cfg, proc, svc, now, cronNext, initial, started, store, sink, rt, up, cx, kd, rs, ls, sd>>

\* ------------------------------------------------------------ the bucket
\* PutObject / CompleteMultipartUpload: the object is (re)written
PutObject(st, key, ts, mod) ==
    {o \in st : o.key # key} \cup {[key |-> key, ts |-> ts, mod |-> mod]}

\* DeleteObject
DeleteObject(st, key) == {o \in st : o.key # key}

\* the objects of S in key order; keys of backups order as their timestamps
RECURSIVE InKeyOrder(_)
InKeyOrder(S) ==
    IF S = {} THEN <<>>
    ELSE LET first == CHOOSE o \in S : \A p \in S : o.ts <= p.ts
         IN  <<first>> \o InKeyOrder(S \ {first})

FirstN(q, n) == SubSeq(q, 1, Min(Len(q), n))

\* one ListObjectsV2 request: result.Contents
ListObjectsV2(st, fullPrefix) ==
    FirstN(InKeyOrder({o \in st : HasPrefix(o.key, fullPrefix)}), ListMaxKeys)

\* fileName = fileName[len(r.prefix)+1:] panics when the key is too short
StripPanics(key) == cfg.R2Prefix # "" /\ Len(key) < Len(cfg.R2Prefix) + 1
StripPrefix(key) ==
    IF cfg.R2Prefix # "" THEN SubSeq(key, Len(cfg.R2Prefix) + 2, Len(key)) ELSE key

\* R2Storage.List(ctx, prefix) on a successful request: []FileInfo
ListFiles(st, prefix) ==
    LET contents == ListObjectsV2(st, PathJoin(cfg.R2Prefix, prefix))
    IN  [i \in 1..Len(contents) |->
            [Name |-> StripPrefix(contents[i].key), ModTime |-> contents[i].mod]]
ListPanics(st, prefix) ==
    LET contents == ListObjectsV2(st, PathJoin(cfg.R2Prefix, prefix))
    IN  \E i \in 1..Len(contents) : StripPanics(contents[i].key)

\* fmt.Sprintf("%s/%s/%s", r.config.R2Endpoint, r.bucketName, fullRemotePath)
DownloadURL(fullRemotePath) ==
    cfg.R2Endpoint \o "/" \o cfg.R2BucketName \o "/" \o fullRemotePath

\* cutoffDate := time.Now().AddDate(0, 0, -s.config.BackupRetention), read
\* in minute t after Upload has returned: the store stamps LastModified in
\* whole minutes, and time.Now() lies after what was stamped in minute t
\* and before minute t + 1, so that ModTime.Before(cutoffDate) is the
\* comparison with the minute that follows
CutoffDate(t) == t + 1 - cfg.BackupRetention * MinutesPerDay

\* file.ModTime.Before(cutoffDate)
IsOld(file, cutoff) == file.ModTime < cutoff

\* s.storage.Upload(ctx, ...) returns; on success cleanupOldBackups starts
UploadDone(r) ==
    /\ proc = "serving"
    /\ run[r].pc = "upload"
    /\ \E outcome \in {"ok", "fail", "timeout"} :
         /\ outcome = "ok" => Exists(fs, run[r].upPath) /\ now < run[r].upDeadline
         /\ outcome = "timeout" => Exists(fs, run[r].upPath) /\ now >= run[r].upDeadline
         /\ IF outcome = "ok"
            THEN /\ store' = PutObject(store, PathJoin(cfg.R2Prefix, run[r].upName),
                                       run[r].start, now)
                 /\ fs' = fs
                 /\ run' = [run EXCEPT
                        ![r].pc = "list",
                        ![r].upSize = fs[run[r].upPath],
                        ![r].url = DownloadURL(PathJoin(cfg.R2Prefix, run[r].upName)),
                        ![r].cutoff = CutoffDate(now),
                        ![r].stages = Append(@, "prune")]
            ELSE /\ store' = store
                 /\ fs' = DeferredCleanup(fs, r)
                 /\ run' = [run EXCEPT ![r] = Failed(@, "upload",
                        IF outcome = "timeout"
                        THEN "failed to upload to storage: context deadline exceeded"
                        ELSE "failed to upload to storage: failed to upload file after retries")]
    /\ UNCHANGED <<cfg, proc, svc, now, cronNext, initial, started, sink, rt, up, cx, kd, rs, ls, sd>>

\* cleanupOldBackups: s.storage.List(ctx, "") returns
PruneList(r) ==
    /\ proc = "serving"
    /\ run[r].pc = "list"
    /\ \E ok \in BOOLEAN :
         /\ ok => now < run[r].deadline
         /\ IF ~ok
            THEN \* logrus.Warnf("Failed to cleanup old backups: %v", err)
                 /\ run' = [run EXCEPT ![r] =
                        Succeeded([@ EXCEPT !.log = @ \cup {"cleanup failed"}], r)]
                 /\ fs' = DeferredCleanup(fs, r)
                 /\ proc' = proc
            ELSE IF ListPanics(store, "")
            THEN \* slice bounds out of range: the goroutine panics
                 /\ run' = [run EXCEPT ![r].pc = "panicked"]
                 /\ fs' = DeferredCleanup(fs, r)
                 /\ proc' = "crashed"
            ELSE LET files == ListFiles(store, "")
                     old == SelectSeq(files, LAMBDA f : IsOld(f, run[r].cutoff))
                     rec == [run[r] EXCEPT !.listed = files, !.todo = old]
                 IN  IF old = <<>>
                     THEN /\ run' = [run EXCEPT ![r] = Succeeded(rec, r)]
                          /\ fs' = DeferredCleanup(fs, r)
                          /\ proc' = proc
                     ELSE /\ run' = [run EXCEPT ![r] = [rec EXCEPT !.pc = "delete"]]
                          /\ fs' = fs
                          /\ proc' = proc
    /\ UNCHANGED <<cfg, svc, now, cronNext, initial, started, store, sink, rt, up, cx, kd, rs, ls, sd>>

\* a loop that is left at the first delete that fails
NextFiles_StopOnError(todo, deleteOk) == IF deleteOk THEN Tail(todo) ELSE <<>>

\* for _, file := range files { ... if err := Delete(...); err != nil { Warnf }
\* }: the files the loop still visits after the delete of Head(todo) returned
NextFiles(todo, deleteOk) == Tail(todo)

\* cleanupOldBackups: s.storage.Delete(ctx, file.Name) of the next old file
\* returns; after the last one CreateBackup returns
PruneDelete(r) ==
    /\ proc = "serving"
    /\ run[r].pc = "delete"
    /\ \E ok \in BOOLEAN :
         /\ ok => now < run[r].deadline
         /\ LET file == Head(run[r].todo)
                rec == [run[r] EXCEPT
                          !.todo = NextFiles(@, ok),
                          !.delReq = Append(@, file.Name),
                          !.log = IF ok THEN @
                                  ELSE @ \cup {"delete failed " \o file.Name}]
            IN  /\ store' = IF ok THEN DeleteObject(store, PathJoin(cfg.R2Prefix, file.Name))
                            ELSE store
                /\ IF rec.todo = <<>>
                   THEN /\ run' = [run EXCEPT ![r] = Succeeded(rec, r)]
                        /\ fs' = DeferredCleanup(fs, r)
                   ELSE /\ run' = [run EXCEPT ![r] = rec]
                        /\ fs' = fs
    /\ UNCHANGED <<cfg, proc, svc, now, cronNext, initial, started, sink, rt, up, cx, kd, rs, ls, sd>>

\* ------------------------------------------------------------ notification
\* the event runBackup hands to NotifyBackupFailure / NotifyBackupSuccess
RunEvent(r) ==
    IF run[r].err # ""
    THEN [run |-> r, kind |-> "failure", duration |-> run[r].duration,
          text |-> run[r].err]
    ELSE [run |-> r, kind |-> "success", duration |-> run[r].result.Duration,
          text |-> run[r].result.FileName]

\* if !s.config.Notification || s.config.DiscordWebhookURL == "" { return nil }
NotificationEnabled == cfg.Notification /\ cfg.DiscordWebhookURL # ""

\* http.NewRequestWithContext(ctx, ...) + s.client.Do(req): with the run's
\* context expired the request is not sent
RequestSent(r) == now < run[r].deadline

\* runBackup after CreateBackup returned: NotifyBackupFailure(ctx, err,
\* duration) or NotifyBackupSuccess(ctx, result), then return; of the
\* goroutine's locals only what it reported is kept
Notify(r) ==
    /\ proc = "serving"
    /\ run[r].pc = "notify"
    /\ \E status \in {"204", "429"} :
         LET ev == RunEvent(r)
             posted == NotificationEnabled /\ RequestSent(r)
             notifyErr == NotificationEnabled /\ (~RequestSent(r) \/ status # "204")
         IN  /\ sink' = IF posted THEN sink \cup {[run |-> r, kind |-> ev.kind]}
                        ELSE sink
             /\ run' = [run EXCEPT ![r] =
                    [IdleRun EXCEPT
                       !.pc = "done", !.trigger = run[r].trigger,
                       !.start = run[r].start, !.deadline = run[r].deadline,
                       !.outcome = run[r].outcome,
                       !.handed = <<ev.kind>>,
                       !.log = IF notifyErr
                               THEN {"Failed to send " \o ev.kind \o " notification"}
                               ELSE {}]]
    /\ UNCHANGED <<cfg, proc, svc, now, cronNext, initial, started, fs, store, rt, up, cx, kd, rs, ls, sd>>

\* ------------------------------------------------------------ retryWithBackoff
\* getEnvAsInt("RETRY_BASE_DELAY", 1), seconds
RetryBaseDelay == 1
\* getEnvAsInt("RETRY_MAX_DELAY", 30), seconds
RetryMaxDelay == 30
MillisPerSecond == 1000

Err500 ==
    "operation error S3: PutObject, exceeded maximum number of attempts, 3, https response error StatusCode: 500"
Err500R2 ==
    "operation error S3: PutObject, exceeded maximum number of attempts, 3, https response error StatusCode: 500, RequestID: , HostID: , api error InternalError: We encountered an internal error. Please try again."
Err503 ==
    "operation error S3: PutObject, exceeded maximum number of attempts, 3, https response error StatusCode: 503"
Err429 ==
    "operation error S3: PutObject, exceeded maximum number of attempts, 3, https response error StatusCode: 429"
ErrDeadline ==
    "operation error S3: PutObject, exceeded maximum number of attempts, 3, context deadline exceeded"
ErrTLS ==
    "operation error S3: PutObject, exceeded maximum number of attempts, 3, net/http: TLS handshake timeout"
\* the six strings isRetryableError compares err.Error() with
RetryableErrors == {Err500, Err500R2, Err503, Err429, ErrDeadline, ErrTLS}

ErrAccessDenied ==
    "operation error S3: PutObject, https response error StatusCode: 403, RequestID: , HostID: , api error AccessDenied: Access Denied"
ErrGet500 ==
    "operation error S3: GetObject, exceeded maximum number of attempts, 3, https response error StatusCode: 500"
ErrCanceled == "context canceled"
ErrCtxDeadline == "context deadline exceeded"
\* ctx.Err() once ctx.Done() is closed
CtxErrors == {ErrCanceled, ErrCtxDeadline}

\* the text of the error the client returns for a request of operation op
S3Error(op, tail) ==
    "operation error S3: " \o op \o ", exceeded maximum number of attempts, 3, " \o tail

\* a server-side 503 answered to a request of operation op
Transient(op) == S3Error(op, "https response error StatusCode: 503")

\* a 403 answered to a request of operation op
Denied(op) ==
    "operation error S3: " \o op \o ", https response error StatusCode: 403, RequestID: , HostID: , api error AccessDenied: Access Denied"

\* the operations that run under retryWithBackoff: operationName and the
\* request of the client
RetryOperations ==
    { [name |-> "simple upload to R2", op |-> "PutObject"],
      [name |-> "download from R2", op |-> "GetObject"],
      [name |-> "delete from R2", op |-> "DeleteObject"],
      [name |-> "list objects from R2", op |-> "ListObjectsV2"] }

\* what one invocation of the operation returns; "" is nil
OperationErrorsOf(op) ==
    {"", S3Error(op, "https response error StatusCode: 500"), Transient(op), Denied(op)}
OperationErrors == UNION {OperationErrorsOf(o.op) : o \in RetryOperations}

\* a classification that takes every error for a transient one
isRetryableError_Any(err) == err # ""

\* isRetryableError(err): err.Error() equals one of the six strings
isRetryableError(err) == err # "" /\ err \in RetryableErrors

RECURSIVE Pow2(_)
Pow2(n) == IF n <= 0 THEN 1 ELSE 2 * Pow2(n - 1)

\* a backoff that is not capped at maxDelay
exponentialBackoff_Uncapped(baseDelay, maxDelay, attempt) ==
    LET delay == baseDelay * MillisPerSecond * Pow2(attempt)
    IN  {delay - delay \div 4, delay, delay + delay \div 4 - 1}

\* exponentialBackoff(attempt): the delays, in milliseconds, the jitter of
\* +-25% allows (rand.Float64() is in [0, 1)); the least, the middle and the
\* greatest are followed
exponentialBackoff(baseDelay, maxDelay, attempt) ==
    LET raw == baseDelay * MillisPerSecond * Pow2(attempt)
        delay == Min(raw, maxDelay * MillisPerSecond)
    IN  {delay - delay \div 4, delay, delay + delay \div 4 - 1}

\* an exhausted-retries return that hands back the bare error
WrapExhausted_Bare(operationName, maxRetries, err) == err

\* fmt.Errorf("%s failed after %d retries: %w", operationName, maxRetries, err)
WrapExhausted(operationName, maxRetries, err) ==
    operationName \o " failed after " \o ToString(maxRetries) \o " retries: " \o err

\* the call retryWithBackoff(ctx, operation, operationName) at its entry
RetryEntry(operation, maxRetries, baseDelay, maxDelay) ==
    [pc |-> "loop", name |-> operation.name, op |-> operation.op,
     maxRetries |-> maxRetries,
     baseDelay |-> baseDelay, maxDelay |-> maxDelay, attempt |-> 0, calls |-> 0, waits |-> <<>>,
     delay |-> 0, lastErr |-> "", ctxErr |-> "", ret |-> "", cause |-> ""]

RetryReturn(rec, err, cause) ==
    [rec EXCEPT !.pc = "returned", !.ret = err, !.cause = cause]

\* a loop head that re-attempts at once, with no wait
RetryLoop_NoWait ==
    /\ rt.pc = "loop"
    /\ IF rt.attempt > rt.maxRetries
       THEN rt' = RetryReturn(rt, rt.lastErr, "")
       ELSE rt' = [rt EXCEPT !.pc = "call"]
    /\ UNCHANGED <<schedVars, up, cx, kd, rs, ls, sd>>

\* for attempt := 0; attempt <= maxRetries; attempt++ { if attempt > 0 {
\* delay := r.exponentialBackoff(attempt - 1) ...: the loop's head
RetryLoop ==
    /\ rt.pc = "loop"
    /\ IF rt.attempt > rt.maxRetries
       THEN rt' = RetryReturn(rt, rt.lastErr, "")            \* return lastErr
       ELSE IF rt.attempt > 0
       THEN \E d \in exponentialBackoff(rt.baseDelay, rt.maxDelay, rt.attempt - 1) :
              rt' = [rt EXCEPT !.pc = "wait", !.delay = d]
       ELSE rt' = [rt EXCEPT !.pc = "call"]
    /\ UNCHANGED <<schedVars, up, cx, kd, rs, ls, sd>>

\* a wait that sleeps for the delay whatever happens to the context
RetryWait_Sleep ==
    /\ rt.pc = "wait"
    /\ \E e \in {rt.ctxErr} \cup CtxErrors :
         rt' = [rt EXCEPT !.pc = "call", !.waits = Append(@, rt.delay), !.ctxErr = e]
    /\ UNCHANGED <<schedVars, up, cx, kd, rs, ls, sd>>

\* select { case <-ctx.Done(): return ctx.Err(); case <-time.After(delay): }
\* the context is done when the wait begins, or becomes done during it, or
\* the timer fires first
RetryWait ==
    /\ rt.pc = "wait"
    /\ \/ /\ rt.ctxErr # ""
          /\ rt' = RetryReturn(rt, rt.ctxErr, "")
       \/ /\ rt.ctxErr = ""
          /\ \E e \in CtxErrors :
               rt' = RetryReturn([rt EXCEPT !.ctxErr = e], e, "")
       \/ /\ rt.ctxErr = ""
          /\ rt' = [rt EXCEPT !.pc = "call", !.waits = Append(@, rt.delay)]
    /\ UNCHANGED <<schedVars, up, cx, kd, rs, ls, sd>>

\* err := operation() and what the loop's body does with it
RetryCall ==
    /\ rt.pc = "call"
    /\ \E err \in OperationErrorsOf(rt.op) :
         LET rec == [rt EXCEPT !.calls = @ + 1]
         IN  IF err = ""
             THEN rt' = RetryReturn(rec, "", "")
             ELSE LET failed == [rec EXCEPT !.lastErr = err]
                  IN  IF ~isRetryableError(err)
                      THEN rt' = RetryReturn(failed, err, "")
                      ELSE IF rt.attempt = rt.maxRetries
                      THEN rt' = RetryReturn(failed,
                                   WrapExhausted(rt.name, rt.maxRetries, err), err)
                      ELSE rt' = [failed EXCEPT !.pc = "loop", !.attempt = @ + 1]
    /\ UNCHANGED <<schedVars, up, cx, kd, rs, ls, sd>>

\* the caller's context is cancelled while the operation is in flight
RetryCancel ==
    /\ rt.pc = "call"
    /\ rt.ctxErr = ""
    /\ \E e \in CtxErrors : rt' = [rt EXCEPT !.ctxErr = e]
    /\ UNCHANGED <<schedVars, up, cx, kd, rs, ls, sd>>

\* ------------------------------------------------------------ the bucket at start-up
OldObject(i) ==
    [key |-> "bk/misskey_2025-07-" \o Pad2(19 - i) \o "_21-35.dump.zst.enc",
     ts |-> -(40 + i) * MinutesPerDay, mod |-> -(40 + i) * MinutesPerDay]
RecentObject ==
    [key |-> "bk/misskey_2025-08-18_21-35.dump.zst.enc",
     ts |-> -10 * MinutesPerDay, mod |-> -10 * MinutesPerDay]
\* an object whose key is the prefix itself
StrayObject ==
    [key |-> "bk", ts |-> -100 * MinutesPerDay, mod |-> -MinutesPerDay]

StorePair == {OldObject(0), RecentObject}
StoreMany == {OldObject(i) : i \in 0..ListMaxKeys} \cup {RecentObject}
StoreStray == {StrayObject, OldObject(0), RecentObject}
StoreOne == {RecentObject}

\* BACKUP_RETENTION=0
KeepNothing(c) == [c EXCEPT !.BackupRetention = 0]

\* the deployments the model starts from: configuration and bucket
Scenarios ==
    { <<Config(NoKey, TRUE, 1, 1), StorePair>>,
      <<Config(RawKey, TRUE, 1, 1), StorePair>>,
      <<Config(RawKey, TRUE, 1, 31), StoreMany>>,
      <<Config(RawKey, TRUE, 1, 31), StoreStray>>,
      <<Config(RawKey, TRUE, 31, 60), StorePair>>,
      <<Config(RawKey, FALSE, 31, 60), StoreMany>>,
      <<KeepNothing(Config(RawKey, TRUE, 1, 31)), StoreOne>> }

RetryIdle == [pc |-> "off"]
UploadIdle == [pc |-> "off"]
CodecIdle == [pc |-> "off"]
KeysIdle == [pc |-> "off"]
RestoreIdle == [pc |-> "off"]
ListIdle == [pc |-> "off"]
StopIdle == [pc |-> "off"]

Init ==
    /\ \E sc \in Scenarios : cfg = sc[1] /\ store = sc[2]
    /\ proc = "boot"
    /\ svc = NilService
    /\ now = 0
    /\ cronNext = 0
    /\ initial = FALSE
    /\ started = 0
    /\ run = [r \in Runs |-> IdleRun]
    /\ fs = [p \in {} |-> 0]
    /\ sink = {}
    /\ rt = RetryIdle
    /\ up = UploadIdle
    /\ cx = CodecIdle
    /\ kd = KeysIdle
    /\ rs = RestoreIdle
    /\ ls = ListIdle
    /\ sd = StopIdle

Next ==
    \/ Boot
    \/ Tick
    \/ CronFire
    \/ InitialRun
    \/ \E r \in Runs : DumpDone(r)
    \/ \E r \in Runs : CompressDone(r)
    \/ \E r \in Runs : EncryptDone(r)
    \/ \E r \in Runs : Stat(r)
    \/ \E r \in Runs : UploadDone(r)
    \/ \E r \in Runs : PruneList(r)
    \/ \E r \in Runs : PruneDelete(r)
    \/ \E r \in Runs : Notify(r)

Spec == Init /\ [][Next]_vars

\* RETRY_BASE_DELAY and RETRY_MAX_DELAY, seconds: the defaults and one
\* more value of each
RetryBaseDelays == {RetryBaseDelay, 4}
RetryMaxDelays == {1, RetryMaxDelay}
\* the configurations of MAX_RETRIES, RETRY_BASE_DELAY and RETRY_MAX_DELAY
\* that SpecRetry follows
RetryConfigs == ((-1)..(MaxCalls - 1)) \X RetryBaseDelays \X RetryMaxDelays

InitRetry ==
    /\ cfg = Config(RawKey, TRUE, 1, 1)
    /\ store = StorePair
    /\ proc = "serving"
    /\ svc = NewService(cfg, FALSE).svc
    /\ now = 0
    /\ cronNext = 1
    /\ initial = FALSE
    /\ started = 0
    /\ run = [r \in Runs |-> IdleRun]
    /\ fs = [p \in {} |-> 0]
    /\ sink = {}
    /\ \E o \in RetryOperations, rc \in RetryConfigs :
         rt = RetryEntry(o, rc[1], rc[2], rc[3])
    /\ up = UploadIdle
    /\ cx = CodecIdle
    /\ kd = KeysIdle
    /\ rs = RestoreIdle
    /\ ls = ListIdle
    /\ sd = StopIdle

NextRetry ==
    \/ RetryLoop
    \/ RetryWait
    \/ RetryCall
    \/ RetryCancel

SpecRetry == InitRetry /\ [][NextRetry]_vars

\* ------------------------------------------------------------ R2Storage.Upload
\* chunks of the largest file that SpecUpload follows
MaxChunks == 3
\* if fileSize > 100*1024*1024
UploadThreshold == 104857600
\* chunkSize := int64(100 * 1024 * 1024)
ChunkSize == 104857600

\* the sizes of the local file: empty, one byte, and one byte around every
\* multiple of the chunk size
FileSizes ==
    {0, 1} \cup {k * ChunkSize + d : k \in 1..MaxChunks, d \in {-1, 0, 1}}

\* if fileSize > 100*1024*1024 { return r.uploadMultipart(...) }
UseMultipart(fileSize) == fileSize > UploadThreshold

\* a part count that drops the last, shorter chunk
NumParts_Floor(fileSize) == fileSize \div ChunkSize

\* numParts := int((fileSize + chunkSize - 1) / chunkSize)
NumParts(fileSize) == (fileSize + ChunkSize - 1) \div ChunkSize

\* a length that is the chunk size for every part, the last included
PartSize_WholeChunk(fileSize, partNumber) == ChunkSize

\* start, end, partSize of the loop's body
PartSize(fileSize, partNumber) ==
    LET start == (partNumber - 1) * ChunkSize
    IN  Min(start + ChunkSize, fileSize) - start

\* start := int64(partNumber-1) * chunkSize, the offset of file.Seek(start, 0)
PartStart(partNumber) == (partNumber - 1) * ChunkSize

\* the UploadPart request of one part: Body is io.LimitReader(file, partSize)
\* read from the offset start, which ends at partSize bytes or at the end of
\* the file, and ContentLength is partSize
PartRequest(fileSize, partNumber) ==
    LET start == PartStart(partNumber)
        partSize == PartSize(fileSize, partNumber)
    IN  [PartNumber |-> partNumber,
         start |-> start,
         end |-> Min(start + partSize, fileSize),
         ContentLength |-> partSize]

\* a request the client issues
Request(op, part) == [op |-> op, part |-> part]

\* a chunk error that is returned with no abort request
AfterPartError_NoAbort(requests) == requests

\* if err != nil { r.client.AbortMultipartUpload(uploadCtx, ...); return ... }
AfterPartError(requests) == Append(requests, Request("AbortMultipartUpload", 0))

\* MAX_RETRIES of the configuration the upload runs under
UploadMaxRetries == 1

\* the error of a request issued with a context that is done
CtxFailure(op, ctxErr) == "operation error S3: " \o op \o ", " \o ctxErr

\* what one request of operation op returns; "" is nil
RequestErrors(op) == {"", Transient(op), Denied(op)}

\* the error of one request of operation op under the context of the upload
RequestError(op, ctxErr, err) ==
    IF ctxErr # "" THEN CtxFailure(op, ctxErr) ELSE err

\* the call Upload(ctx, localPath, remotePath) at its entry; tries counts the
\* sends of the request last issued, cause is the error it last returned
UploadEntry(fileSize) ==
    [pc |-> "stat", size |-> fileSize, strategy |-> "", session |-> "none",
     numParts |-> 0, partNumber |-> 0, receipts |-> <<>>, sent |-> 0,
     requests |-> <<>>, submitted |-> <<>>, stored |-> FALSE, parts |-> <<>>,
     tries |-> 0, cause |-> "", ctxErr |-> "", ret |-> ""]

UploadReturn(rec, err) == [rec EXCEPT !.pc = "returned", !.ret = err]

\* Upload: os.Stat(localPath) and the choice of the strategy
UpStat ==
    /\ up.pc = "stat"
    /\ \E statErr \in BOOLEAN :
         IF statErr
         THEN up' = UploadReturn(up, "failed to get file info")
         ELSE IF UseMultipart(up.size)
         THEN up' = [up EXCEPT !.pc = "create", !.strategy = "multipart"]
         ELSE up' = [up EXCEPT !.pc = "put", !.strategy = "simple"]
    /\ UNCHANGED <<schedVars, rt, cx, kd, rs, ls, sd>>

\* uploadSimple: one turn of the loop of retryWithBackoff around PutObject:
\* the wait before a re-attempt, in which a done context ends the call, then
\* the request, and the return or the next turn
UpPut ==
    /\ up.pc = "put"
    /\ \E err \in RequestErrors("PutObject") :
         LET e == RequestError("PutObject", up.ctxErr, err)
             rec == [up EXCEPT !.requests = Append(@, Request("PutObject", 0)),
                               !.tries = @ + 1, !.cause = e]
         IN  IF up.tries > 0 /\ up.ctxErr # ""
             THEN up' = UploadReturn([up EXCEPT !.cause = up.ctxErr],
                                     "failed to upload file after retries")
             ELSE IF e = ""
             THEN up' = UploadReturn([rec EXCEPT !.stored = TRUE, !.sent = up.size], "")
             ELSE IF isRetryableError(e) /\ up.tries < UploadMaxRetries
             THEN up' = rec
             ELSE up' = UploadReturn(rec, "failed to upload file after retries")
    /\ UNCHANGED <<schedVars, rt, cx, kd, rs, ls, sd>>

\* uploadMultipart: CreateMultipartUpload, then numParts
UpCreate ==
    /\ up.pc = "create"
    /\ \E err \in RequestErrors("CreateMultipartUpload") :
         /\ LET e == RequestError("CreateMultipartUpload", up.ctxErr, err)
                rec == [up EXCEPT
                          !.requests = Append(@, Request("CreateMultipartUpload", 0)),
                          !.tries = 1, !.cause = e]
            IN  IF e = ""
                THEN up' = [rec EXCEPT !.pc = "open", !.session = "open",
                                       !.numParts = NumParts(up.size)]
                ELSE up' = UploadReturn(rec, "failed to create multipart upload")
    /\ UNCHANGED <<schedVars, rt, cx, kd, rs, ls, sd>>

\* uploadMultipart: file, err := os.Open(localPath)
UpOpen ==
    /\ up.pc = "open"
    /\ \E ok \in BOOLEAN :
         IF ok
         THEN up' = [up EXCEPT !.pc = IF 1 <= up.numParts THEN "part" ELSE "complete",
                               !.partNumber = 1]
         ELSE up' = UploadReturn(up, "failed to open file")
    /\ UNCHANGED <<schedVars, rt, cx, kd, rs, ls, sd>>

\* uploadMultipart: one iteration of the loop over the parts: Seek,
\* UploadPart, and on its error AbortMultipartUpload
UpPart ==
    /\ up.pc = "part"
    /\ \E seekErr \in BOOLEAN, err \in RequestErrors("UploadPart"),
          abortOk \in BOOLEAN :
         /\ seekErr => (err = "" /\ ~abortOk)
         /\ LET e == RequestError("UploadPart", up.ctxErr, err)
                outcome == IF seekErr THEN "seek" ELSE IF e = "" THEN "ok" ELSE "fail"
                rec == [up EXCEPT
                          !.requests = Append(@, Request("UploadPart", up.partNumber)),
                          !.parts = Append(@, PartRequest(up.size, up.partNumber)),
                          !.tries = 1, !.cause = e]
            IN  /\ abortOk => (outcome = "fail" /\ up.ctxErr = "")
                /\ CASE outcome = "seek" ->
                       up' = UploadReturn(up, "failed to seek file")
                  [] outcome = "fail" ->
                       LET requests == AfterPartError(rec.requests)
                           aborted == abortOk /\ requests # rec.requests
                       IN  up' = UploadReturn(
                                   [rec EXCEPT !.requests = requests,
                                               !.session = IF aborted THEN "aborted" ELSE @],
                                   "failed to upload part " \o ToString(up.partNumber))
                  [] outcome = "ok" ->
                       up' = [rec EXCEPT
                                !.receipts = Append(@, up.partNumber),
                                !.sent = @ + PartSize(up.size, up.partNumber),
                                !.partNumber = @ + 1,
                                !.pc = IF up.partNumber + 1 <= up.numParts
                                       THEN "part" ELSE "complete"]
    /\ UNCHANGED <<schedVars, rt, cx, kd, rs, ls, sd>>

\* uploadMultipart: CompleteMultipartUpload with the collected parts
UpComplete ==
    /\ up.pc = "complete"
    /\ \E err \in RequestErrors("CompleteMultipartUpload") :
         /\ LET e == RequestError("CompleteMultipartUpload", up.ctxErr, err)
                rec == [up EXCEPT
                          !.requests = Append(@, Request("CompleteMultipartUpload", 0)),
                          !.submitted = up.receipts,
                          !.tries = 1, !.cause = e]
            IN  IF e = ""
                THEN up' = UploadReturn([rec EXCEPT !.session = "completed",
                                                    !.stored = TRUE], "")
                ELSE up' = UploadReturn(rec, "failed to complete multipart upload")
    /\ UNCHANGED <<schedVars, rt, cx, kd, rs, ls, sd>>

\* uploadCtx is cancelled, or its deadline passes, while the upload runs
UpCancel ==
    /\ up.pc \in {"put", "create", "open", "part", "complete"}
    /\ up.ctxErr = ""
    /\ \E e \in CtxErrors : up' = [up EXCEPT !.ctxErr = e]
    /\ UNCHANGED <<schedVars, rt, cx, kd, rs, ls, sd>>

\* the scheduler's variables while a single call is followed
SchedulerAtRest ==
    /\ cfg = Config(RawKey, TRUE, 1, 1)
    /\ store = StorePair
    /\ proc = "serving"
    /\ svc = NewService(cfg, FALSE).svc
    /\ now = 0
    /\ cronNext = 1
    /\ initial = FALSE
    /\ started = 0
    /\ run = [r \in Runs |-> IdleRun]
    /\ fs = [p \in {} |-> 0]
    /\ sink = {}

InitUpload ==
    /\ SchedulerAtRest
    /\ rt = RetryIdle
    /\ \E fileSize \in FileSizes : up = UploadEntry(fileSize)
    /\ cx = CodecIdle
    /\ kd = KeysIdle
    /\ rs = RestoreIdle
    /\ ls = ListIdle
    /\ sd = StopIdle

NextUpload ==
    \/ UpStat
    \/ UpPut
    \/ UpCreate
    \/ UpOpen
    \/ UpPart
    \/ UpComplete
    \/ UpCancel

SpecUpload == InitUpload /\ [][NextUpload]_vars

\* ------------------------------------------------------------ EncryptFile / DecryptFile
\* encryptionBuf = 64 * 1024, scaled down: bytes one Read of the loop returns
EncryptionBuf == 2
\* bytes of the longest plaintext that SpecCodec follows
MaxPlainLen == 3
\* the values of a byte, two bits wide
Bytes == 0..3

\* a file's content is the sequence of its bytes
SeqsUpTo(S, n) == UNION {[1..k -> S] : k \in 0..n}
\* the byte values that the plaintexts are made of
PlainBytes == {1, 2}
\* the plaintexts that are followed: of every length up to MaxPlainLen, the
\* two that alternate the bytes
PlainTexts ==
    { [i \in 1..n |-> IF (i + p) % 2 = 0 THEN 1 ELSE 2] :
        n \in 0..MaxPlainLen, p \in 0..1 }

\* rand.Read(nonce): the nonces that are followed
Nonces == {[i \in 1..NonceSize |-> 0], [i \in 1..NonceSize |-> i % 4]}

\* key material of 32 bytes in base64, next to the raw RawKey
B64Key == "MDEyMzQ1Njc4OWFiY2RlZjAxMjM0NTY3ODlhYmNkZWY="
KeyMaterials == {RawKey, B64Key}

RECURSIVE Xor(_, _)
Xor(a, b) ==
    IF a = 0 THEN b
    ELSE IF b = 0 THEN a
    ELSE ((a + b) % 2) + 2 * Xor(a \div 2, b \div 2)

RECURSIVE SumSeq(_)
SumSeq(q) == IF q = <<>> THEN 0 ELSE Head(q) + SumSeq(Tail(q))

\* cipher.NewCTR(block, nonce): byte i (from 0) of the key stream that the
\* cipher key and the nonce determine
KeyStream(encKey, nonce, i) ==
    (encKey[2].len + Len(encKey[2].text) + SumSeq(nonce) + 3 * i + i \div 2) % 4

\* stream.XORKeyStream(chunk, chunk) with the stream at byte offset
XORKeyStream(encKey, nonce, offset, chunk) ==
    [j \in 1..Len(chunk) |-> Xor(chunk[j], KeyStream(encKey, nonce, offset + j - 1))]

\* a byte of a container: <<v>> for a byte of the value v, and for a byte
\* of a tag the term of HmacSum that stands for it
Cells(q) == [i \in 1..Len(q) |-> <<q[i]>>]
Values(cells) == [i \in 1..Len(cells) |-> cells[i][1]]

\* a tag that does not depend on the key
HmacSum_Unkeyed(hmacKey, data) ==
    [i \in 1..AuthTagSize |-> <<"hmac-sha256", i, <<>>, data>>]

\* mac.Sum(nil) of hmac.New(sha256.New, hmacKey) after the writes of data:
\* the authTagSize bytes of the tag, each a function of the key and of all
\* of the data
HmacSum(hmacKey, data) ==
    [i \in 1..AuthTagSize |-> <<"hmac-sha256", i, hmacKey, data>>]

\* a tag computed over the ciphertext alone
MacStart_Empty(nonce) == <<>>

\* mac.Write(nonce): the data of the tag starts with the nonce
MacStart(nonce) == nonce

\* n of in.Read(buf) with rest bytes left to read
ReadLen(rest) == Min(EncryptionBuf, rest)

\* the loop of EncryptFile from the source's byte offset on: the bytes
\* written after the nonce and the data of the tag, or the error of the
\* write of chunk number failAt
RECURSIVE EncryptLoop(_, _, _, _, _, _, _)
EncryptLoop(plain, offset, out, macData, encKey, nonce, failAt) ==
    LET n == ReadLen(Len(plain) - offset)
    IN  IF n = 0
        THEN [err |-> "", out |-> out, macData |-> macData]
        ELSE IF failAt = offset \div EncryptionBuf + 1
        THEN [err |-> "failed to write encrypted chunk: no space left on device",
              out |-> out, macData |-> macData]
        ELSE LET chunk == XORKeyStream(encKey, nonce, offset,
                                       SubSeq(plain, offset + 1, offset + n))
             IN  EncryptLoop(plain, offset + n, out \o chunk, macData \o chunk,
                             encKey, nonce, failAt)

\* a file of the working directory of the codec
NoFile == [exists |-> FALSE, bytes |-> <<>>]
FileOf(bytes) == [exists |-> TRUE, bytes |-> bytes]

\* EncryptFile(inputPath, outputPath, encKey, hmacKey) with the nonce that
\* rand.Read produced and the write that fails (0: none)
EncryptFile(plain, encKey, hmacKey, nonce, failAt) ==
    LET body == EncryptLoop(plain, 0, <<>>, MacStart(nonce), encKey, nonce, failAt)
    IN  IF body.err # ""
        THEN [err |-> body.err, out |-> FileOf(Cells(nonce \o body.out))]
        ELSE [err |-> "",
              out |-> FileOf(Cells(nonce \o body.out)
                               \o HmacSum(hmacKey, body.macData))]

\* an I/O fault of DecryptFile: its kind and, for the loop, the chunk
NoFault == [kind |-> "none", chunk |-> 0]
DecryptFaults ==
    {NoFault}
        \cup {[kind |-> k, chunk |-> 0] :
                k \in {"create", "readNonce", "readTag", "sync"}}
        \cup {[kind |-> k, chunk |-> c] :
                k \in {"readChunk", "writeChunk"}, c \in 1..2}

\* a decryption that creates the key stream anew for every chunk
DecryptChunk_Restart(encKey, nonce, offset, chunk) ==
    XORKeyStream(encKey, nonce, 0, chunk)

\* stream.XORKeyStream(chunk, chunk) in the loop of DecryptFile
DecryptChunk(encKey, nonce, offset, chunk) ==
    XORKeyStream(encKey, nonce, offset, chunk)

\* the loop of DecryptFile over the ciphertext region from byte offset on
RECURSIVE DecryptLoop(_, _, _, _, _, _, _)
DecryptLoop(cipher, offset, out, macData, encKey, nonce, fault) ==
    LET n == ReadLen(Len(cipher) - offset)
        c == offset \div EncryptionBuf + 1
    IN  IF n = 0
        THEN [err |-> "", out |-> out, macData |-> macData]
        ELSE IF fault = [kind |-> "readChunk", chunk |-> c]
        THEN [err |-> "failed to read encrypted file: input/output error",
              out |-> out, macData |-> macData]
        ELSE LET chunk == SubSeq(cipher, offset + 1, offset + n)
             IN  IF fault = [kind |-> "writeChunk", chunk |-> c]
                 THEN [err |-> "failed to write decrypted chunk: no space left on device",
                       out |-> out, macData |-> macData \o chunk]
                 ELSE DecryptLoop(cipher, offset + n,
                                  out \o DecryptChunk(encKey, nonce, offset, chunk),
                                  macData \o chunk, encKey, nonce, fault)

\* cipherLen := info.Size() - nonceSize - authTagSize
CipherLen(size) == size - NonceSize - AuthTagSize

\* a deferred function that closes the destination and leaves it in place
DecryptCleanup_Keep(dst, err) == dst

\* defer func() { out.Close(); if err != nil { os.Remove(outputPath) } }()
DecryptCleanup(dst, err) == IF err # "" THEN NoFile ELSE dst

\* a size check that lets every source through
TooSmall_Never(size) == FALSE

\* info.Size() < nonceSize+authTagSize
TooSmall(size) == size < NonceSize + AuthTagSize

Max(a, b) == IF a > b THEN a ELSE b

\* the body of DecryptFile: size is info.Size() of the source, readable the
\* bytes that the reads of the source return once the destination has been
\* created, before the destination as it was before the call. The result
\* is the error, the destination after the call and whether os.Create
\* succeeded.
DecryptStream(size, readable, before, encKey, hmacKey, fault) ==
    IF TooSmall(size)
    THEN [err |-> "encrypted file is too small to contain nonce and tag",
          dst |-> before, created |-> FALSE]
    ELSE IF fault.kind = "create"
    THEN [err |-> "failed to create decrypted file: permission denied",
          dst |-> before, created |-> FALSE]
    ELSE IF fault.kind = "readNonce" \/ Len(readable) < NonceSize
    THEN LET err == IF fault.kind = "readNonce"
                    THEN "failed to read nonce: input/output error"
                    ELSE IF readable = <<>> THEN "failed to read nonce: EOF"
                    ELSE "failed to read nonce: unexpected EOF"
         IN  [err |-> err, dst |-> DecryptCleanup(FileOf(<<>>), err),
              created |-> TRUE]
    ELSE
      LET nonce == Values(SubSeq(readable, 1, NonceSize))
          limit == Min(Max(CipherLen(size), 0), Len(readable) - NonceSize)
          body == DecryptLoop(Values(SubSeq(readable, NonceSize + 1,
                                            NonceSize + limit)),
                              0, <<>>, MacStart(nonce), encKey, nonce, fault)
          tag == SubSeq(readable, NonceSize + limit + 1,
                        Min(Len(readable), NonceSize + limit + AuthTagSize))
          err == IF body.err # "" THEN body.err
                 ELSE IF fault.kind = "readTag"
                 THEN "failed to read auth tag: input/output error"
                 ELSE IF Len(tag) < AuthTagSize
                 THEN "failed to read auth tag: unexpected EOF"
                 ELSE IF HmacSum(hmacKey, body.macData) # tag
                 THEN "authentication failed: HMAC mismatch"
                 ELSE IF fault.kind = "sync"
                 THEN "failed to sync decrypted file: input/output error"
                 ELSE ""
      IN  [err |-> err, dst |-> DecryptCleanup(FileOf(body.out), err),
           created |-> TRUE]

\* DecryptFile(inputPath, outputPath, encKey, hmacKey) with two paths that
\* name different files: the source keeps its bytes while it is read
DecryptFile(source, before, encKey, hmacKey, fault) ==
    DecryptStream(Len(source), source, before, encKey, hmacKey, fault)

\* a file that is at the destination path before DecryptFile is called
StaleFile == FileOf(<<0>>)

\* one plaintext on its way through EncryptFile and DecryptFile
CodecEntry(keyMaterial, plain, dst) ==
    [pc |-> "plain", key |-> keyMaterial,
     keys |-> DeriveEncryptionKeys(keyMaterial), plain |-> plain,
     container |-> NoFile, clen |-> 0, encErr |-> "", tampered |-> 0,
     cut |-> 0, srcLen |-> 0, dst |-> dst, before |-> dst, created |-> FALSE,
     fault |-> NoFault, err |-> ""]

\* EncryptFile writes the container
CxEncrypt ==
    /\ cx.pc = "plain"
    /\ \E nonce \in Nonces, failAt \in 0..1 :
         LET keys == cx.keys
             made == EncryptFile(cx.plain, keys.encKey, keys.hmacKey, nonce, failAt)
         IN  cx' = [cx EXCEPT !.pc = IF made.err = "" THEN "sealed" ELSE "done",
                              !.container = IF made.err = "" THEN made.out ELSE NoFile,
                              !.clen = Len(made.out.bytes),
                              !.encErr = made.err]
    /\ UNCHANGED <<schedVars, rt, up, kd, rs, ls, sd>>

\* the container rests in the store and comes back as it was written
CxKeep ==
    /\ cx.pc = "sealed"
    /\ cx' = [cx EXCEPT !.pc = "fetched"]
    /\ UNCHANGED <<schedVars, rt, up, kd, rs, ls, sd>>

\* one byte of the container is changed while it rests in the store
CxTamper ==
    /\ cx.pc = "sealed"
    /\ \E pos \in 1..Len(cx.container.bytes) :
         LET was == cx.container.bytes[pos]
         IN  \E v \in IF pos > Len(cx.container.bytes) - AuthTagSize
                       THEN {<<"changed", was>>}
                       ELSE {<<b>> : b \in Bytes \ {was[1]}} :
               cx' = [cx EXCEPT !.pc = "fetched", !.tampered = pos,
                                !.container.bytes[pos] = v]
    /\ UNCHANGED <<schedVars, rt, up, kd, rs, ls, sd>>

\* the container comes back from the store shorter than it was written
CxCut ==
    /\ cx.pc = "sealed"
    /\ \E n \in 0..(Len(cx.container.bytes) - 1) :
         cx' = [cx EXCEPT !.pc = "fetched",
                          !.cut = Len(cx.container.bytes) - n,
                          !.container.bytes = SubSeq(@, 1, n)]
    /\ UNCHANGED <<schedVars, rt, up, kd, rs, ls, sd>>

\* DecryptFile reads the container and writes the destination; what stays
\* of the container afterwards is its length
CxDecrypt ==
    /\ cx.pc = "fetched"
    /\ \E fault \in DecryptFaults :
         LET keys == cx.keys
             got == DecryptFile(cx.container.bytes, cx.dst, keys.encKey,
                                keys.hmacKey, fault)
         IN  cx' = [cx EXCEPT !.pc = "done", !.container = NoFile,
                              !.srcLen = Len(cx.container.bytes),
                              !.fault = fault, !.err = got.err, !.dst = got.dst,
                              !.created = got.created]
    /\ UNCHANGED <<schedVars, rt, up, kd, rs, ls, sd>>

InitCodec ==
    /\ SchedulerAtRest
    /\ rt = RetryIdle
    /\ up = UploadIdle
    /\ \E k \in KeyMaterials, plain \in PlainTexts, dst \in {NoFile, StaleFile} :
         cx = CodecEntry(k, plain, dst)
    /\ kd = KeysIdle
    /\ rs = RestoreIdle
    /\ ls = ListIdle
    /\ sd = StopIdle

NextCodec ==
    \/ CxEncrypt
    \/ CxKeep
    \/ CxTamper
    \/ CxCut
    \/ CxDecrypt

SpecCodec == InitCodec /\ [][NextCodec]_vars

\* ------------------------------------------------------------ DeriveEncryptionKeys
\* characters of the longest key material that SpecKeys follows
MaxKeyLen == 48
\* sha256.Size: bytes of a digest, and so of each derived key
Sha256Size == 32

RECURSIVE Repeat(_, _)
Repeat(ch, n) == IF n <= 0 THEN "" ELSE ch \o Repeat(ch, n - 1)

\* the values of BACKUP_ENCRYPTION_KEY that are followed: text of the base64
\* alphabet, text outside of it, text that ends in padding or in a line
\* break
KeyInputs ==
    {Repeat("a", n) : n \in 0..MaxKeyLen}
        \cup {Repeat("-", n) : n \in 1..MaxKeyLen}
        \cup {Repeat("a", n - 1) \o "=" : n \in 1..MaxKeyLen}
        \cup {Repeat("a", n - 2) \o "==" : n \in 2..MaxKeyLen}
        \cup {Repeat("a", n - 1) \o "\n" : n \in 1..MaxKeyLen}
        \cup {RawKey, B64Key}

\* len(key) of a key that DeriveEncryptionKeys returned; nil has no bytes
KeyBytes(key) == IF key = <<>> THEN 0 ELSE Sha256Size

\* one call of DeriveEncryptionKeys(keyMaterial)
KeysEntry(keyMaterial) ==
    [pc |-> "call", input |-> keyMaterial, decoded |-> 0,
     resolved |-> ResolveKeyMaterial_Raw(""), err |-> "",
     encKey |-> <<>>, hmacKey |-> <<>>]

\* DeriveEncryptionKeys runs; of its locals the outcome of DecodeString and
\* the resolved byte string are kept
KdDerive ==
    /\ kd.pc = "call"
    /\ LET out == DeriveEncryptionKeys(kd.input)
       IN  kd' = [kd EXCEPT !.pc = "returned",
                            !.decoded = B64DecodedLen(kd.input),
                            !.resolved = ResolveKeyMaterial(kd.input),
                            !.err = out.err,
                            !.encKey = out.encKey,
                            !.hmacKey = out.hmacKey]
    /\ UNCHANGED <<schedVars, rt, up, cx, rs, ls, sd>>

InitKeys ==
    /\ SchedulerAtRest
    /\ rt = RetryIdle
    /\ up = UploadIdle
    /\ cx = CodecIdle
    /\ rs = RestoreIdle
    /\ ls = ListIdle
    /\ sd = StopIdle
    /\ \E k \in KeyInputs : kd = KeysEntry(k)

NextKeys == KdDerive

SpecKeys == InitKeys /\ [][NextKeys]_vars

\* ------------------------------------------------------------ restore mode
\* http.StatusOK
StatusOK == 200
StatusNotFound == 404
\* the first byte of a zstd frame
ZstdMagic == 3

\* the places of the character ch in s
Places(s, ch) == {i \in 1..Len(s) : CharAt(s, i) = ch}

\* strings.Index(s, ch) + 1: the place of the first ch in s, 0 without one
IndexOf(s, ch) ==
    IF Places(s, ch) = {} THEN 0
    ELSE CHOOSE i \in Places(s, ch) : \A j \in Places(s, ch) : i <= j

\* strings.LastIndex(s, ch) + 1
LastIndexOf(s, ch) ==
    IF Places(s, ch) = {} THEN 0
    ELSE CHOOSE i \in Places(s, ch) : \A j \in Places(s, ch) : i >= j

Before(s, ch) == IF IndexOf(s, ch) = 0 THEN s ELSE SubSeq(s, 1, IndexOf(s, ch) - 1)
From(s, i) == SubSeq(s, i, Len(s))

HasSuffix(s, suffix) ==
    Len(s) >= Len(suffix) /\ SubSeq(s, Len(s) - Len(suffix) + 1, Len(s)) = suffix

\* strings.TrimSuffix(s, suffix)
TrimSuffix(s, suffix) ==
    IF HasSuffix(s, suffix) THEN SubSeq(s, 1, Len(s) - Len(suffix)) ELSE s

HexDigits ==
    {"0","1","2","3","4","5","6","7","8","9","a","b","c","d","e","f",
     "A","B","C","D","E","F"}

\* the character that a valid escape %xy stands for; the escapes of the
\* slash and of the dot are told apart, every other one stands for a
\* character that is neither
Unhex(xy) == IF xy = "2F" \/ xy = "2f" THEN "/"
             ELSE IF xy = "2E" \/ xy = "2e" THEN "."
             ELSE "~"

\* url.unescape, first pass: every % is followed by two hex digits
ValidEscapes(s) ==
    \A i \in Places(s, "%") :
        /\ i + 2 <= Len(s)
        /\ CharAt(s, i + 1) \in HexDigits
        /\ CharAt(s, i + 2) \in HexDigits

RECURSIVE Unescape(_)
\* url.unescape, second pass, on text with valid escapes
Unescape(s) ==
    LET i == IndexOf(s, "%")
    IN  IF i = 0 THEN s
        ELSE SubSeq(s, 1, i - 1) \o Unhex(SubSeq(s, i + 1, i + 2))
               \o Unescape(From(s, i + 3))

\* url.Parse(rawURL): the error and the Path of the URL. The fragment and
\* the query are cut off, the scheme ends at the first colon that comes
\* before any slash, an authority follows "//", and the rest is unescaped.
UrlParse(rawURL) ==
    LET noFrag == Before(rawURL, "#")
        colon == IndexOf(Before(noFrag, "/"), ":")
        rest == Before(IF colon > 1 THEN From(noFrag, colon + 1) ELSE noFrag, "?")
        escaped == IF HasPrefix(rest, "//")
                   THEN LET afterHost == From(rest, 3)
                        IN  IF IndexOf(afterHost, "/") = 0 THEN ""
                            ELSE From(afterHost, IndexOf(afterHost, "/"))
                   ELSE IF colon > 1 /\ ~HasPrefix(rest, "/") THEN ""
                   ELSE rest
    IN  IF colon = 1
        THEN [err |-> "parse " \o rawURL \o ": missing protocol scheme", path |-> ""]
        ELSE IF ~ValidEscapes(escaped)
        THEN [err |-> "parse " \o rawURL \o ": invalid URL escape", path |-> ""]
        ELSE [err |-> "", path |-> Unescape(escaped)]

\* p without the slashes at its end
TrimSlashes(p) ==
    LET others == {i \in 1..Len(p) : CharAt(p, i) # "/"}
    IN  IF others = {} THEN ""
        ELSE SubSeq(p, 1, CHOOSE i \in others : \A j \in others : i >= j)

\* path.Base(p)
PathBase(p) ==
    IF p = "" THEN "."
    ELSE LET t == TrimSlashes(p)
         IN  IF t = "" THEN "/" ELSE From(t, LastIndexOf(t, "/") + 1)

\* a check of the file name that refuses the empty name only
NoFileName_Empty(fileName) == fileName = ""

\* fileName == "" || fileName == "." || fileName == "/"
NoFileName(fileName) == fileName \in {"", ".", "/"}

\* filepath.Join("restore", fileName), which cleans the joined path
RestorePath(fileName) ==
    IF fileName = ".." THEN "."
    ELSE IF fileName \in {"", ".", "/"} THEN "restore"
    ELSE "restore/" \o fileName

\* the paths that name a directory, which os.Create and zstd -o refuse
IsDirectoryPath(p) == p \in {".", "restore"} \/ HasSuffix(p, "/")

\* the dump that was backed up
Dump == <<1, 2, 1>>

\* zstd: the frame of a content
Compress(content) == <<ZstdMagic>> \o content

\* zstd -d: the content of a frame, or an error for bytes that are no frame
Decompress(bytes) ==
    IF bytes # <<>> /\ Head(bytes) = ZstdMagic
    THEN [err |-> "", content |-> Tail(bytes)]
    ELSE [err |-> "exit status 1", content |-> <<>>]

\* the container that CreateBackup uploaded: the compressed dump under the
\* keys derived from RawKey
BackupContainer ==
    LET keys == DeriveEncryptionKeys(RawKey)
    IN  EncryptFile(Compress(Dump), keys.encKey, keys.hmacKey,
                    [i \in 1..NonceSize |-> i % 4], 0).out.bytes

\* the URL that the backup's notification gave out
CorrectURL == "https://r2.example/backups/misskey_2025-01-01_05-00.dump.zst.enc"

\* the values of -restore-url that are followed, each with the class the
\* text belongs to
RestoreURLs ==
    {[text |-> CorrectURL, class |-> "named"],
     [text |-> CorrectURL \o "?sig=1#top", class |-> "named"],
     [text |-> "https://r2.example/backups/misskey.dump.enc", class |-> "named"],
     [text |-> "https://r2.example/backups/misskey.dump.zst", class |-> "named"],
     [text |-> "https://r2.example/backups/misskey", class |-> "named"],
     [text |-> "https://r2.example/backups/.enc", class |-> "named"],
     [text |-> "https://r2.example/backups/.zst.enc", class |-> "named"],
     [text |-> "https://r2.example/backups%2Fmisskey.zst.enc", class |-> "named"],
     [text |-> "https://r2.example/backups/misskey.zst.enc/", class |-> "named"],
     [text |-> "https://r2.example/backups/..", class |-> "named"],
     [text |-> "", class |-> "empty"],
     [text |-> ":r2.example/backups/misskey.zst.enc", class |-> "unparsable"],
     [text |-> "https://r2.example/backups/%zz.zst.enc", class |-> "unparsable"],
     [text |-> "https://r2.example", class |-> "no path"],
     [text |-> "https://r2.example?sig=1", class |-> "no path"],
     [text |-> "https://r2.example/", class |-> "root path"],
     [text |-> "https://r2.example//", class |-> "root path"]}

\* files of the working directory: path -> bytes
NoFiles == [p \in {} |-> <<>>]
PutFile(files, p, bytes) ==
    [q \in (DOMAIN files) \cup {p} |-> IF q = p THEN bytes ELSE files[q]]
DropFile(files, p) == [q \in (DOMAIN files) \ {p} |-> files[q]]
FileAt(files, p) == IF p \in DOMAIN files THEN FileOf(files[p]) ELSE NoFile
SetFile(files, p, file) ==
    IF file.exists THEN PutFile(files, p, file.bytes) ELSE DropFile(files, p)

\* a failed download that leaves what it wrote
DownloadCleanup_Keep(files, encryptedPath) == files

\* os.Remove(encryptedPath) after io.Copy or out.Close failed
DownloadCleanup(files, encryptedPath) == DropFile(files, encryptedPath)

\* a processEncryptedBackup that removes the downloaded container only
ProcessCleanup_ContainerOnly(files, encryptedPath, decryptedZstPath, decrypted) ==
    DropFile(files, encryptedPath)

\* the deferred os.Remove calls of processEncryptedBackup, last one first;
\* the second one is registered once DecryptFile has succeeded
ProcessCleanup(files, encryptedPath, decryptedZstPath, decrypted) ==
    DropFile(IF decrypted THEN DropFile(files, decryptedZstPath) ELSE files,
             encryptedPath)

\* the program started with -restore-url
RestoreEntry(url) ==
    [pc |-> "start", url |-> url, fileName |-> "", encryptedPath |-> "",
     decryptedZstPath |-> "", restoreDumpPath |-> "",
     dirMade |-> FALSE, files |-> NoFiles, requests |-> 0,
     created |-> FALSE, downloaded |-> FALSE, fault |-> NoFault, stages |-> <<>>,
     backup |-> IdleRun, ret |-> "", err |-> ""]

RestoreReturn(rec, ret, err) ==
    [rec EXCEPT !.pc = "returned", !.ret = ret, !.err = err]

\* CreateBackup is called on the service of the restore mode
RsCreateBackup ==
    /\ rs.pc = "start"
    /\ rs.backup = IdleRun
    /\ \E mkdirErr \in BOOLEAN :
         rs' = [rs EXCEPT !.backup = EnterRun("direct", mkdirErr)]
    /\ UNCHANGED <<schedVars, rt, up, cx, kd, ls, sd>>

\* RetrieveBackupFromURL up to the path of the download
RsValidate ==
    /\ rs.pc = "start"
    /\ \E mkdirErr \in BOOLEAN :
         LET parsed == UrlParse(rs.url.text)
             fileName == PathBase(parsed.path)
         IN  rs' =
               IF rs.url.text = ""
               THEN RestoreReturn(rs, "", "download URL is empty")
               ELSE IF mkdirErr
               THEN RestoreReturn(rs, "",
                      "failed to create restore directory: permission denied")
               ELSE IF parsed.err # ""
               THEN RestoreReturn([rs EXCEPT !.dirMade = TRUE], "",
                                  "invalid download URL: " \o parsed.err)
               ELSE IF NoFileName(fileName)
               THEN RestoreReturn([rs EXCEPT !.dirMade = TRUE], "",
                                  "download URL does not include file name")
               ELSE [rs EXCEPT !.pc = "request", !.dirMade = TRUE,
                               !.fileName = fileName,
                               !.encryptedPath = RestorePath(fileName)]
    /\ UNCHANGED <<schedVars, rt, up, cx, kd, ls, sd>>

\* RetrieveBackupFromURL from the request to the saved download
RsDownload ==
    /\ rs.pc = "request"
    /\ \E outcome \in {"do", "status", "create", "copy", "close", "ok"} :
         LET sent == [rs EXCEPT !.requests = @ + 1]
             \* os.Create(encryptedPath) succeeded
             made == [sent EXCEPT !.created = TRUE]
             \* what io.Copy wrote before it failed
             partial == SubSeq(BackupContainer, 1, Len(BackupContainer) \div 2)
             forced == IF IsDirectoryPath(rs.encryptedPath) /\ outcome \in {"copy", "close", "ok"}
                       THEN "create" ELSE outcome
         IN  rs' =
               CASE forced = "do" ->
                      RestoreReturn(sent, "",
                        "failed to download backup: Get: connection refused")
                 [] forced = "status" ->
                      RestoreReturn(sent, "",
                        "download failed with status: " \o ToString(StatusNotFound) \o " Not Found")
                 [] forced = "create" ->
                      RestoreReturn(sent, "",
                        "failed to create local file: permission denied")
                 [] forced = "copy" ->
                      RestoreReturn(
                        [made EXCEPT !.files = DownloadCleanup(
                             PutFile(@, rs.encryptedPath, partial), rs.encryptedPath)],
                        "", "failed to save downloaded file: unexpected EOF")
                 [] forced = "close" ->
                      RestoreReturn(
                        [made EXCEPT !.files = DownloadCleanup(
                             PutFile(@, rs.encryptedPath, BackupContainer),
                             rs.encryptedPath)],
                        "", "failed to close downloaded file: input/output error")
                 [] OTHER ->
                      [made EXCEPT !.pc = "process", !.downloaded = TRUE,
                                   !.files = PutFile(@, rs.encryptedPath, BackupContainer),
                                   !.decryptedZstPath = TrimSuffix(rs.encryptedPath, ".enc"),
                                   !.restoreDumpPath =
                                       TrimSuffix(TrimSuffix(rs.encryptedPath, ".enc"), ".zst")]
    /\ UNCHANGED <<schedVars, rt, up, cx, kd, ls, sd>>

\* processEncryptedBackup: DecryptFile
RsDecrypt ==
    /\ rs.pc = "process"
    /\ \E fault \in DecryptFaults :
         LET source == rs.files[rs.encryptedPath]
             inPlace == rs.decryptedZstPath = rs.encryptedPath
             happens == IF IsDirectoryPath(rs.decryptedZstPath)
                        THEN [kind |-> "create", chunk |-> 0] ELSE fault
             got == DecryptStream(Len(source), IF inPlace THEN <<>> ELSE source,
                                  FileAt(rs.files, rs.decryptedZstPath),
                                  svc.encKey, svc.hmacKey, happens)
             wrote == SetFile(rs.files, rs.decryptedZstPath, got.dst)
             ran == [rs EXCEPT !.fault = happens, !.stages = Append(@, "decrypt")]
         IN  rs' =
               IF got.err # ""
               THEN RestoreReturn(
                      [ran EXCEPT !.files = ProcessCleanup(wrote, rs.encryptedPath,
                                                           rs.decryptedZstPath, FALSE)],
                      "", "failed to decrypt backup: " \o got.err)
               ELSE [ran EXCEPT !.pc = "decompress", !.files = wrote]
    /\ UNCHANGED <<schedVars, rt, up, cx, kd, ls, sd>>

\* processEncryptedBackup: decompressFile, and the return
RsDecompress ==
    /\ rs.pc = "decompress"
    /\ \E execErr \in BOOLEAN :
         LET unpacked == Decompress(rs.files[rs.decryptedZstPath])
             refused == \/ rs.restoreDumpPath = rs.decryptedZstPath
                        \/ IsDirectoryPath(rs.restoreDumpPath)
             err == IF execErr \/ refused THEN "exit status 1" ELSE unpacked.err
             wrote == IF err = ""
                      THEN PutFile(rs.files, rs.restoreDumpPath, unpacked.content)
                      ELSE rs.files
             ran == [rs EXCEPT !.stages = Append(@, "decompress"),
                               !.files = ProcessCleanup(wrote, rs.encryptedPath,
                                                        rs.decryptedZstPath, TRUE)]
         IN  rs' = IF err # ""
                   THEN RestoreReturn(ran, "", "failed to decompress backup: " \o err)
                   ELSE RestoreReturn(ran, rs.restoreDumpPath, "")
    /\ UNCHANGED <<schedVars, rt, up, cx, kd, ls, sd>>

\* the keys that -encryption-key or BACKUP_ENCRYPTION_KEY may hold
RestoreKeys == {RawKey, B64Key}

\* the configuration of a machine that restores: no setting of the object
\* store is in its environment
RestoreConfig(key) ==
    [Config(key, FALSE, 1, 1) EXCEPT !.R2Endpoint = "", !.R2BucketName = "",
                                     !.R2Prefix = ""]

InitRestore ==
    /\ \E k \in RestoreKeys : cfg = RestoreConfig(k)
    /\ store = {}
    /\ proc = "restore"
    /\ svc = NewService(cfg, TRUE).svc
    /\ now = 0
    /\ cronNext = 0
    /\ initial = FALSE
    /\ started = 0
    /\ run = [r \in Runs |-> IdleRun]
    /\ fs = [p \in {} |-> 0]
    /\ sink = {}
    /\ rt = RetryIdle
    /\ up = UploadIdle
    /\ cx = CodecIdle
    /\ kd = KeysIdle
    /\ \E url \in RestoreURLs : rs = RestoreEntry(url)
    /\ ls = ListIdle
    /\ sd = StopIdle

NextRestore ==
    \/ RsCreateBackup
    \/ RsValidate
    \/ RsDownload
    \/ RsDecrypt
    \/ RsDecompress

SpecRestore == InitRestore /\ [][NextRestore]_vars

\* ------------------------------------------------------------ List and Delete
\* the values of R2_PREFIX that are followed: none, a plain one, and one
\* with a slash at its end
ListPrefixes == {"", "bk", "bk/"}

\* the keys the bucket may hold, in key order
ListKeys ==
    <<"bk/m1.enc", "bk/m2.enc", "bk/p/m1.enc", "bkup/m1.enc", "m1.enc">>

ListObject(i) == [key |-> ListKeys[i], ts |-> i, mod |-> i]

\* one call of List(ctx, "") and, after it, one call of Delete(ctx, name)
ListEntry ==
    [pc |-> "list", before |-> store, keys |-> <<>>, names |-> <<>>,
     key |-> "", name |-> "", addressed |-> "", err |-> ""]

\* R2Storage.List(ctx, ""): the request, and the loop over result.Contents
LsList ==
    /\ ls.pc = "list"
    /\ \E ok \in BOOLEAN :
         IF ~ok
         THEN ls' = [ls EXCEPT !.pc = "returned",
                               !.err = "failed to list objects after retries"]
         ELSE IF ListPanics(store, "")
         THEN ls' = [ls EXCEPT !.pc = "panicked"]
         ELSE LET contents == ListObjectsV2(store, PathJoin(cfg.R2Prefix, ""))
                  files == ListFiles(store, "")
              IN  ls' = [ls EXCEPT
                           !.pc = "listed",
                           !.keys = [i \in 1..Len(contents) |-> contents[i].key],
                           !.names = [i \in 1..Len(files) |-> files[i].Name]]
    /\ UNCHANGED <<schedVars, rt, up, cx, kd, rs, sd>>

\* R2Storage.Delete(ctx, file.Name) with a name that List returned
LsDelete ==
    /\ ls.pc = "listed"
    /\ \E i \in 1..Len(ls.names), ok \in BOOLEAN :
         LET fullRemotePath == PathJoin(cfg.R2Prefix, ls.names[i])
         IN  /\ ls' = [ls EXCEPT
                         !.pc = "returned", !.key = ls.keys[i],
                         !.name = ls.names[i], !.addressed = fullRemotePath,
                         !.err = IF ok THEN ""
                                 ELSE "failed to delete object after retries"]
             /\ store' = IF ok THEN DeleteObject(store, fullRemotePath) ELSE store
    /\ UNCHANGED <<cfg, proc, svc, now, cronNext, initial, started, run, fs, sink, rt, up, cx, kd, rs, sd>>

InitList ==
    /\ \E prefix \in ListPrefixes :
         cfg = [Config(RawKey, TRUE, 1, 1) EXCEPT !.R2Prefix = prefix]
    /\ \E held \in SUBSET (1..Len(ListKeys)) : store = {ListObject(i) : i \in held}
    /\ proc = "serving"
    /\ svc = NewService(cfg, FALSE).svc
    /\ now = 0
    /\ cronNext = 1
    /\ initial = FALSE
    /\ started = 0
    /\ run = [r \in Runs |-> IdleRun]
    /\ fs = [p \in {} |-> 0]
    /\ sink = {}
    /\ rt = RetryIdle
    /\ up = UploadIdle
    /\ cx = CodecIdle
    /\ kd = KeysIdle
    /\ rs = RestoreIdle
    /\ ls = ListEntry
    /\ sd = StopIdle

NextList ==
    \/ LsList
    \/ LsDelete

SpecList == InitList /\ [][NextList]_vars

\* ------------------------------------------------------------ Scheduler.Stop
\* main blocked in <-sigChan, the scheduler started
StopEntry == [pc |-> "main", ret |-> "", running |-> {}, started |-> 0]

\* the goroutines cron's job waiter counts: those the cron entry started.
\* The goroutine of the delayed initial run is started by Scheduler.Start
\* itself and is not among them
CronJobs == {r \in Runs : Active(r) /\ run[r].trigger = "cron"}

\* a signal arrives: main calls scheduler.Stop(shutdownCtx), whose first
\* statement stopCtx := s.cron.Stop() ends cron's loop, so that the entry
\* has no further activation; ctx of Start is not cancelled
StopSignal ==
    /\ proc = "serving"
    /\ sd.pc = "main"
    /\ sd' = [sd EXCEPT !.pc = "select"]
    /\ cronNext' = -1
    /\ UNCHANGED <<cfg, proc, svc, now, initial, started, run, fs, store, sink, rt, up, cx, kd, rs, ls>>

\* case <-stopCtx.Done(): return nil; the jobs cron waits for have returned
StopDone ==
    /\ proc = "serving"
    /\ sd.pc = "select"
    /\ CronJobs = {}
    /\ sd' = [sd EXCEPT !.pc = "stopped", !.ret = "",
                        !.running = {r \in Runs : Active(r)},
                        !.started = started]
    /\ UNCHANGED <<schedVars, rt, up, cx, kd, rs, ls>>

\* case <-ctx.Done(): the 30 s of shutdownCtx have passed and a job cron
\* waits for has not returned
StopDeadline ==
    /\ proc = "serving"
    /\ sd.pc = "select"
    /\ CronJobs # {}
    /\ sd' = [sd EXCEPT !.pc = "stopped",
                        !.ret = "context cancelled while stopping scheduler",
                        !.running = {r \in Runs : Active(r)},
                        !.started = started]
    /\ UNCHANGED <<schedVars, rt, up, cx, kd, rs, ls>>

\* main logs "Service stopped" and returns: the process and every goroutine
\* of it end
StopExit ==
    /\ proc = "serving"
    /\ sd.pc = "stopped"
    /\ sd' = [sd EXCEPT !.pc = "exited"]
    /\ proc' = "exited"
    /\ UNCHANGED <<cfg, svc, now, cronNext, initial, started, run, fs, store, sink, rt, up, cx, kd, rs, ls>>

\* the deployments SpecStop starts from: a schedule that fires one minute
\* after start-up, and one whose first firing is far enough for the initial
\* run
StopScenarios ==
    { <<Config(RawKey, TRUE, 1, 1), StorePair>>,
      <<Config(RawKey, TRUE, 31, 60), StorePair>> }

InitStop ==
    /\ \E sc \in StopScenarios : cfg = sc[1] /\ store = sc[2]
    /\ proc = "boot"
    /\ svc = NilService
    /\ now = 0
    /\ cronNext = 0
    /\ initial = FALSE
    /\ started = 0
    /\ run = [r \in Runs |-> IdleRun]
    /\ fs = [p \in {} |-> 0]
    /\ sink = {}
    /\ rt = RetryIdle
    /\ up = UploadIdle
    /\ cx = CodecIdle
    /\ kd = KeysIdle
    /\ rs = RestoreIdle
    /\ ls = ListIdle
    /\ sd = StopEntry

NextStop ==
    \/ Boot
    \/ Tick
    \/ CronFire
    \/ InitialRun
    \/ \E r \in Runs : DumpDone(r)
    \/ \E r \in Runs : CompressDone(r)
    \/ \E r \in Runs : EncryptDone(r)
    \/ \E r \in Runs : Stat(r)
    \/ \E r \in Runs : UploadDone(r)
    \/ \E r \in Runs : PruneList(r)
    \/ \E r \in Runs : PruneDelete(r)
    \/ \E r \in Runs : Notify(r)
    \/ StopSignal
    \/ StopDone
    \/ StopDeadline
    \/ StopExit

SpecStop == InitStop /\ [][NextStop]_vars

\* ------------------------------------------------------------ sub-minute schedules
\* CRON_SCHEDULE="@every 20s", which cron.AddFunc accepts as it accepts every
\* "@every <duration>": the first firing falls into the minute after
\* start-up and the following ones into the same minute
EverySeconds(c) == [c EXCEPT !.CronFirst = 1, !.CronPeriod = 0]

InitOverlap ==
    /\ cfg = EverySeconds(Config(RawKey, TRUE, 1, 1))
    /\ store = StorePair
    /\ proc = "boot"
    /\ svc = NilService
    /\ now = 0
    /\ cronNext = 0
    /\ initial = FALSE
    /\ started = 0
    /\ run = [r \in Runs |-> IdleRun]
    /\ fs = [p \in {} |-> 0]
    /\ sink = {}
    /\ rt = RetryIdle
    /\ up = UploadIdle
    /\ cx = CodecIdle
    /\ kd = KeysIdle
    /\ rs = RestoreIdle
    /\ ls = ListIdle
    /\ sd = StopIdle

\* the next firing is never more than 30 minutes away, and Start launches no
\* initial run
NextOverlap ==
    \/ Boot
    \/ Tick
    \/ CronFire
    \/ \E r \in Runs : DumpDone(r)
    \/ \E r \in Runs : CompressDone(r)
    \/ \E r \in Runs : EncryptDone(r)
    \/ \E r \in Runs : Stat(r)
    \/ \E r \in Runs : UploadDone(r)
    \/ \E r \in Runs : PruneList(r)
    \/ \E r \in Runs : PruneDelete(r)
    \/ \E r \in Runs : Notify(r)

SpecOverlap == InitOverlap /\ [][NextOverlap]_vars

\* ==================================================================== claims
Range(q) == {q[i] : i \in 1..Len(q)}
Last(q) == q[Len(q)]
IsPrefix(p, q) == Len(p) <= Len(q) /\ p = SubSeq(q, 1, Len(p))

\* the stages of CreateBackup, from a run's start to its return
InCreateBackup == {"dump", "compress", "encrypt", "stat", "upload", "list", "delete"}

\* C1: when CreateBackup returns from a run that got past the creation of the
\* working directory, in success or in failure at any stage, none of the
\* run's three local files (.dump, .dump.zst, .dump.zst.enc) exists.
C1_NoLocalFileAtReturn ==
    \A r \in Runs :
        (run[r].pc = "notify" /\ run[r].stages # <<>>)
            => RunFiles(r) \cap DOMAIN fs = {}

\* a run returned Failed from the upload, after it had written all three
\* files, while another run's files are still in the working directory
C1_Witness ==
    \E r \in Runs :
        /\ run[r].pc = "notify"
        /\ run[r].failedAt = "upload"
        /\ RunFiles(r) \cap DOMAIN fs = {}
        /\ DOMAIN fs # {}

\* the order of the stages with the configuration's key
ExpectedStages ==
    IF cfg.EncryptionKey # ""
    THEN <<"dump", "compress", "encrypt", "upload", "prune">>
    ELSE <<"dump", "compress", "upload", "prune">>

\* C2: the stages a run has started are, in order and each once, an initial
\* part of dump, compress, encrypt (with a key), upload, prune; the stage in
\* execution is the last one started; a run that succeeded went through all of
\* them; and a run in which dump, compress, encrypt, the size lookup or the
\* upload failed has returned Failed with the failing stage as its last one.
C2_StagesInOrder ==
    \A r \in Runs :
        run[r].pc \notin {"idle", "done"} =>
            /\ IsPrefix(run[r].stages, ExpectedStages)
            /\ run[r].pc \in {"dump", "compress", "encrypt", "upload"}
                  => Last(run[r].stages) = run[r].pc
            /\ run[r].pc \in {"list", "delete"} => Last(run[r].stages) = "prune"
            /\ run[r].outcome = "success" => run[r].stages = ExpectedStages
            /\ run[r].failedAt \in {"dump", "compress", "encrypt", "upload"}
                  => /\ run[r].pc = "notify"
                     /\ run[r].outcome = "failure"
                     /\ run[r].err # ""
                     /\ Last(run[r].stages) = run[r].failedAt
            /\ run[r].failedAt = "stat"
                  => /\ run[r].pc = "notify"
                     /\ run[r].outcome = "failure"
                     /\ "upload" \notin Range(run[r].stages)

\* a run returned Failed from the compression: nothing after it was started
C2_Witness ==
    \E r \in Runs :
        /\ run[r].pc = "notify"
        /\ run[r].failedAt = "compress"
        /\ run[r].stages = <<"dump", "compress">>

\* C3: with no encryption key configured the process serves backups, and a
\* run that succeeds has skipped the encryption, has uploaded the compressed
\* file, and names the remote object and the result's file {db}_{ts}.dump.zst.
C3_NoKeyUploadsCompressed ==
    cfg.EncryptionKey = "" =>
        /\ proc # "fatal"
        /\ \A r \in Runs :
              (run[r].pc = "notify" /\ run[r].outcome = "success") =>
                  /\ "encrypt" \notin Range(run[r].stages)
                  /\ run[r].upPath = CompressedFilePath(r)
                  /\ run[r].upName = BackupFileName(r) \o ".zst"
                  /\ run[r].result.FileName = run[r].upName

\* the names of the files of a listing that are older than the cutoff
OldNames(files, cutoff) ==
    LET old == SelectSeq(files, LAMBDA f : IsOld(f, cutoff))
    IN  [i \in 1..Len(old) |-> old[i].Name]

\* C4: a run whose upload succeeded returns a success result and a nil error
\* whatever the list request and the delete requests of the pruning did, and
\* every old file of the listing gets its delete request, also after a delete
\* that failed.
C4_PruneNeverFailsRun ==
    \A r \in Runs :
        /\ (run[r].pc = "notify" /\ "prune" \in Range(run[r].stages))
              => /\ run[r].outcome = "success"
                 /\ run[r].err = ""
                 /\ ~run[r].result.nil
                 /\ run[r].result.Success
                 /\ run[r].result.Error = ""
                 /\ run[r].delReq = OldNames(run[r].listed, run[r].cutoff)
        /\ run[r].pc = "delete"
              => run[r].delReq \o [i \in 1..Len(run[r].todo) |-> run[r].todo[i].Name]
                    = OldNames(run[r].listed, run[r].cutoff)

\* a run returned success although its first delete failed, and the old file
\* after it was deleted all the same
C4_Witness ==
    \E r \in Runs :
        /\ run[r].pc = "notify"
        /\ run[r].outcome = "success"
        /\ Len(run[r].delReq) >= 2
        /\ ("delete failed " \o run[r].delReq[1]) \in run[r].log
        /\ ("delete failed " \o run[r].delReq[2]) \notin run[r].log

\* C5: when a run returns after a pruning whose list request succeeded, every
\* object under the prefix that is older than the cutoff has had its delete
\* request, however many objects the bucket holds, and no other object has.
C5_PruneDeletesEveryOldObject ==
    \A r \in Runs :
        (run[r].pc = "notify" /\ run[r].outcome = "success"
            /\ "cleanup failed" \notin run[r].log) =>
            /\ \A o \in store :
                  (HasPrefix(o.key, cfg.R2Prefix \o "/") /\ o.mod < run[r].cutoff)
                      => StripPrefix(o.key) \in Range(run[r].delReq)
            /\ \A n \in Range(run[r].delReq) :
                  \E i \in 1..Len(run[r].listed) :
                      /\ run[r].listed[i].Name = n
                      /\ run[r].listed[i].ModTime < run[r].cutoff

\* C6: at most one run is inside CreateBackup at any time.
C6_AtMostOneRunInProgress ==
    Cardinality({r \in Runs : run[r].pc \in InCreateBackup}) <= 1

\* C7: a dump, a compression, an encryption or an upload that is still in
\* progress when the run's deadline has expired is interrupted: it ends with
\* the run Failed and CreateBackup returning.
C7_DeadlineInterruptsStage ==
    [][\A r \in Runs :
          (/\ run[r].pc \in {"dump", "compress", "encrypt", "upload"}
           /\ now >= run[r].deadline
           /\ run'[r].pc # run[r].pc)
              => (run'[r].pc = "notify" /\ run'[r].outcome = "failure")]_vars

\* C8: a panic inside a run is caught at the run's boundary: the process
\* keeps serving.
C8_PanicIsCaught ==
    \A r \in Runs : run[r].pc = "panicked" => proc = "serving"

\* C9: a run that has ended handed exactly one event to the notification
\* service, of the kind of its outcome; and with notifications enabled the
\* failure event of every failed run was sent to the webhook.
C9_OneEventAndFailureSent ==
    \A r \in Runs :
        run[r].pc = "done" =>
            /\ Len(run[r].handed) = 1
            /\ run[r].handed[1] = run[r].outcome
            /\ (run[r].outcome = "failure" /\ NotificationEnabled)
                  => [run |-> r, kind |-> "failure"] \in sink

\* the errors of the operation that the retry policy does not list
TerminalErrors == (OperationErrors \ {""}) \ RetryableErrors

\* C10: once the operation has failed with a terminal error, on whichever
\* attempt, retryWithBackoff has returned that very error, unwrapped; the
\* operation was invoked once per attempt up to that one and not again, and no
\* wait followed the error.
C10_TerminalErrorReturnedAtOnce ==
    (rt.pc # "off" /\ rt.lastErr \in TerminalErrors) =>
        /\ rt.pc = "returned"
        /\ rt.ret = rt.lastErr
        /\ rt.cause = ""
        /\ rt.calls = rt.attempt + 1
        /\ Len(rt.waits) = rt.attempt
        /\ (rt.attempt = 0 => rt.calls = 1)

\* the second attempt failed with a terminal error after a transient one
C10_Witness ==
    /\ rt.pc = "returned"
    /\ rt.lastErr = ErrAccessDenied
    /\ rt.attempt = 1
    /\ rt.calls = 2
    /\ rt.ret = ErrAccessDenied

\* C11: a call that returns success after the operation ran has invoked it
\* once more than it failed (N retryable failures, N + 1 invocations) and has
\* waited exactly once before each re-attempt and not before the first one.
C11_SuccessAfterNRetries ==
    /\ rt.pc = "call" => (rt.calls = rt.attempt /\ Len(rt.waits) = rt.attempt)
    /\ (rt.pc = "returned" /\ rt.ret = "" /\ rt.calls > 0) =>
          /\ rt.calls = rt.attempt + 1
          /\ Len(rt.waits) = rt.attempt
          /\ rt.attempt <= rt.maxRetries
          /\ rt.attempt > 0 => rt.lastErr \in RetryableErrors

\* two retryable failures, then success on the third invocation
C11_Witness ==
    /\ rt.pc = "returned"
    /\ rt.ret = ""
    /\ rt.attempt = 2
    /\ rt.calls = 3
    /\ Len(rt.waits) = 2

\* C12 as stated: the configured maximum is the maximum number of attempts;
\* after max-retries attempts that failed with a retryable error the call has
\* returned the exhausted-retries error and makes no further attempt.
C12_MaxRetriesIsMaxAttempts ==
    (rt.pc # "off" /\ rt.maxRetries >= 1 /\ rt.attempt = rt.maxRetries) =>
        /\ rt.pc = "returned"
        /\ rt.cause = rt.lastErr
        /\ rt.calls = rt.maxRetries

\* C12, amended: the operation is invoked at most max-retries + 1 times (one
\* attempt and max-retries retries); when that many attempts failed with a
\* retryable error the call returns the exhausted-retries error, which wraps
\* the last underlying error, and an exhausted-retries error is returned in
\* no other case.
C12_ExhaustedAfterMaxRetriesPlusOne ==
    rt.pc # "off" =>
        /\ rt.calls <= rt.maxRetries + 1
        /\ (rt.pc = "returned" /\ rt.calls = rt.maxRetries + 1 /\ rt.ret # ""
               /\ rt.lastErr \in RetryableErrors)
              => /\ rt.cause = rt.lastErr
                 /\ Len(rt.ret) > Len(rt.cause)
                 /\ SubSeq(rt.ret, Len(rt.ret) - Len(rt.cause) + 1, Len(rt.ret)) = rt.cause
                 /\ HasPrefix(rt.ret, rt.name \o " failed after "
                                        \o ToString(rt.maxRetries) \o " retries: ")
        /\ (rt.pc = "returned" /\ rt.cause # "")
              => (rt.calls = rt.maxRetries + 1 /\ Len(rt.waits) = rt.maxRetries)

\* with MAX_RETRIES = 2 the third attempt failed too
C12_Witness ==
    /\ rt.pc = "returned"
    /\ rt.maxRetries = 2
    /\ rt.calls = 3
    /\ rt.cause = Err503
    /\ rt.ret # Err503

\* C13: a wait during which the context is done (cancelled or past its
\* deadline) ends with the return of the context's error, not of the last
\* operation error nor of an exhausted-retries error, and the operation is
\* not invoked again.
C13_CancelledWaitReturnsCtxErr ==
    [][/\ (rt.pc = "wait" /\ rt'.ctxErr # "")
            => /\ rt'.pc = "returned"
               /\ rt'.ret = rt'.ctxErr
               /\ rt'.ret \in CtxErrors
               /\ rt'.cause = ""
               /\ rt'.calls = rt.calls
               /\ rt'.waits = rt.waits
       /\ rt.pc = "returned" => rt' = rt]_vars

\* the deadline passed during the wait before the third attempt
C13_Witness ==
    /\ rt.pc = "returned"
    /\ rt.ret = ErrCtxDeadline
    /\ rt.attempt = 2
    /\ rt.calls = 2
    /\ Len(rt.waits) = 1

\* C14: Upload sends a file multi-part exactly when its size is at or above
\* the threshold of 100 MiB, and single-shot exactly when it is below; a file
\* of exactly the threshold's size goes multi-part.
C14_MultipartAtOrAboveThreshold ==
    (up.pc # "off" /\ up.strategy # "") =>
        /\ up.size >= UploadThreshold => up.strategy = "multipart"
        /\ up.size < UploadThreshold => up.strategy = "simple"

\* ceil(fileSize / ChunkSize)
CeilChunks(fileSize) ==
    CHOOSE n \in 0..(MaxChunks + 2) :
        n * ChunkSize >= fileSize /\ (n = 0 \/ (n - 1) * ChunkSize < fileSize)

\* the part numbers of the UploadPart requests, in the order of their issue
PartRequests(requests) ==
    LET parts == SelectSeq(requests, LAMBDA q : q.op = "UploadPart")
    IN  [i \in 1..Len(parts) |-> parts[i].part]

C16_ChunkErrorAborts ==
    (up.pc = "returned" /\ HasPrefix(up.ret, "failed to upload part ")) =>
        LET k == Len(up.receipts) + 1
        IN  /\ up.ret = "failed to upload part " \o ToString(k)
            /\ k <= CeilChunks(up.size)
            /\ PartRequests(up.requests) = [i \in 1..k |-> i]
            /\ Len(up.requests) >= 2
            /\ Last(up.requests) = Request("AbortMultipartUpload", 0)
            /\ up.requests[Len(up.requests) - 1] = Request("UploadPart", k)
            /\ \A i \in 1..Len(up.requests) :
                  up.requests[i].op # "CompleteMultipartUpload"

\* the second chunk failed and the session was aborted at the store
C16_Witness ==
    /\ up.pc = "returned"
    /\ up.ret = "failed to upload part 2"
    /\ up.receipts = <<1>>
    /\ up.session = "aborted"

\* C17: whenever uploadMultipart returns after the session was created, the
\* session is completed or aborted at the store.
C17_NoSessionLeftOpen ==
    (up.pc = "returned" /\ up.session # "none") =>
        up.session \in {"completed", "aborted"}

\* the recomputed tag of a container equals its trailing tag
TagMatches(bytes, keyMaterial) ==
    /\ Len(bytes) >= NonceSize + AuthTagSize
    /\ HmacSum(DeriveEncryptionKeys(keyMaterial).hmacKey,
               Values(SubSeq(bytes, 1, Len(bytes) - AuthTagSize)))
         = SubSeq(bytes, Len(bytes) - AuthTagSize + 1, Len(bytes))

\* C18: for every plaintext (the empty one and lengths that are no multiple
\* of the buffer included) and every key material that resolves to at least
\* 32 bytes, the container that EncryptFile writes is nonce + |P| + tag long,
\* and DecryptFile on it with the same keys succeeds and writes exactly the
\* bytes of the plaintext.
C18_RoundTrip ==
    /\ (cx.pc = "sealed" /\ cx.encErr = "")
         => Len(cx.container.bytes) = NonceSize + Len(cx.plain) + AuthTagSize
    /\ (cx.pc = "done" /\ cx.encErr = "" /\ cx.tampered = 0 /\ cx.cut = 0
           /\ cx.fault = NoFault)
         => /\ DeriveEncryptionKeys(cx.key).err = ""
            /\ cx.err = ""
            /\ cx.dst = FileOf(cx.plain)
            /\ cx.clen = NonceSize + Len(cx.plain) + AuthTagSize

\* a plaintext of more than one buffer and no whole number of buffers came
\* back from the round trip
C18_Witness ==
    /\ cx.pc = "done" /\ cx.encErr = "" /\ cx.tampered = 0 /\ cx.cut = 0
    /\ cx.fault = NoFault
    /\ Len(cx.plain) > EncryptionBuf
    /\ Len(cx.plain) % EncryptionBuf # 0
    /\ cx.dst = FileOf(cx.plain)

\* C19: a container with any single byte changed, in the nonce, in the
\* ciphertext or in the tag, makes DecryptFile fail with the authentication
\* error, and no destination file exists afterwards.
C19_TamperedByteFailsAuthentication ==
    (cx.pc = "done" /\ cx.tampered # 0 /\ cx.fault = NoFault)
        => /\ cx.err = "authentication failed: HMAC mismatch"
           /\ ~cx.dst.exists

\* a byte of a non-empty ciphertext was changed and the decryption failed
C19_Witness ==
    /\ cx.pc = "done" /\ cx.fault = NoFault
    /\ cx.tampered > NonceSize
    /\ cx.tampered <= cx.clen - AuthTagSize
    /\ cx.err = "authentication failed: HMAC mismatch"
    /\ ~cx.dst.exists

\* C20: when DecryptFile returns an error after it created the destination
\* (nonce read, ciphertext read, write, missing tag, tag mismatch, sync), the
\* destination does not exist; a destination exists after the call only if
\* the recomputed tag matched the trailing tag.
C20_DestinationOnlyAfterAuthentication ==
    [][(cx.pc = "fetched" /\ cx'.pc = "done")
         => /\ (cx'.err # "" /\ cx'.created => ~cx'.dst.exists)
            /\ (cx'.dst.exists /\ cx'.created
                  => TagMatches(cx.container.bytes, cx.key))]_vars

\* the write of the second chunk failed after the first chunk was written,
\* and the destination is gone
C20_Witness ==
    /\ cx.pc = "done"
    /\ cx.fault = [kind |-> "writeChunk", chunk |-> 2]
    /\ cx.err = "failed to write decrypted chunk: no space left on device"
    /\ cx.created
    /\ ~cx.dst.exists

\* C21: DecryptFile on a source shorter than nonce + tag (48 bytes) fails
\* with the too-small error before it creates, truncates or touches the
\* destination; a source of exactly 48 bytes is not rejected as too small,
\* and with a valid tag it decrypts to an empty file.
C21_ShortSourceRejectedUntouched ==
    (cx.pc = "done" /\ cx.encErr = "")
        => /\ cx.srcLen < NonceSize + AuthTagSize
                => /\ cx.err = "encrypted file is too small to contain nonce and tag"
                   /\ ~cx.created
                   /\ cx.dst = cx.before
           /\ cx.srcLen = NonceSize + AuthTagSize
                => cx.err # "encrypted file is too small to contain nonce and tag"
           /\ (/\ cx.srcLen = NonceSize + AuthTagSize
               /\ cx.tampered = 0 /\ cx.cut = 0 /\ cx.fault = NoFault)
                => cx.err = "" /\ cx.dst = FileOf(<<>>)

\* a source of 47 bytes was rejected and the file that was at the
\* destination before the call is still there
C21_Witness ==
    /\ cx.pc = "done" /\ cx.encErr = ""
    /\ cx.srcLen = NonceSize + AuthTagSize - 1
    /\ cx.err = "encrypted file is too small to contain nonce and tag"
    /\ cx.before = StaleFile
    /\ cx.dst = StaleFile

\* C22: DeriveEncryptionKeys fails with the key-not-set error for the empty
\* string and with the at-least-32-bytes error whenever the resolved bytes
\* are fewer than 32, resolved by base64 decoding or as raw text alike; with
\* 32 or more resolved bytes it succeeds and returns two keys of 32 bytes;
\* whenever it fails it returns no key.
C22_KeyMaterialGate ==
    kd.pc = "returned"
        => /\ kd.input = ""
                => kd.err = "encryption key is not set in BACKUP_ENCRYPTION_KEY"
           /\ (kd.input # "" /\ kd.resolved.len < MinKeyBytes)
                => kd.err = "encryption key must be at least 32 bytes after base64 decoding"
           /\ (kd.input # "" /\ kd.resolved.len >= MinKeyBytes)
                => /\ kd.err = ""
                   /\ KeyBytes(kd.encKey) = Sha256Size
                   /\ KeyBytes(kd.hmacKey) = Sha256Size
           /\ kd.err # "" => kd.encKey = <<>> /\ kd.hmacKey = <<>>

\* text of 32 characters or more that decodes to fewer than 32 bytes was
\* refused
C22_Witness ==
    /\ kd.pc = "returned"
    /\ Len(kd.input) >= MinKeyBytes
    /\ kd.resolved.form = "base64"
    /\ kd.resolved.len < MinKeyBytes
    /\ kd.err = "encryption key must be at least 32 bytes after base64 decoding"
    /\ kd.encKey = <<>>

\* C23: a restore from the correct URL with a different key that is valid
\* and long enough fails with the authentication error, and when it returns
\* there is no restored dump, no downloaded container and no decrypted or
\* partly decrypted file in the restore directory.
C23_WrongKeyLeavesNothing ==
    (/\ rs.pc = "returned"
     /\ rs.url.text = CorrectURL
     /\ cfg.EncryptionKey # RawKey
     /\ rs.downloaded
     /\ rs.fault = NoFault)
        => /\ DeriveEncryptionKeys(cfg.EncryptionKey).err = ""
           /\ rs.err = "failed to decrypt backup: authentication failed: HMAC mismatch"
           /\ rs.ret = ""
           /\ DOMAIN rs.files = {}

\* the container was downloaded and the wrong key was refused
C23_Witness ==
    /\ rs.pc = "returned"
    /\ rs.url.text = CorrectURL
    /\ cfg.EncryptionKey = B64Key
    /\ rs.downloaded /\ rs.fault = NoFault
    /\ rs.stages = <<"decrypt">>
    /\ rs.err = "failed to decrypt backup: authentication failed: HMAC mismatch"
    /\ DOMAIN rs.files = {}

\* C24: after a download that succeeded the restore decrypts, then
\* decompresses, and for every file name of the URL, with or without .enc
\* and .zst.enc, it returns with the downloaded container and the decrypted
\* file deleted; on success the returned dump path names a file that exists
\* and is neither of the two.
C24_IntermediatesDeletedDumpKept ==
    (rs.pc = "returned" /\ rs.downloaded)
        => /\ rs.stages \in {<<"decrypt">>, <<"decrypt", "decompress">>}
           /\ rs.encryptedPath \notin DOMAIN rs.files
           /\ rs.decryptedZstPath \notin DOMAIN rs.files
           /\ rs.err = ""
                => /\ rs.stages = <<"decrypt", "decompress">>
                   /\ rs.ret \in DOMAIN rs.files
                   /\ rs.ret \notin {rs.encryptedPath, rs.decryptedZstPath}

\* a restore succeeded and only the dump is left
C24_Witness ==
    /\ rs.pc = "returned" /\ rs.downloaded
    /\ rs.err = ""
    /\ rs.ret = "restore/misskey_2025-01-01_05-00.dump"
    /\ DOMAIN rs.files = {rs.ret}
    /\ rs.files[rs.ret] = Dump

C26_RestoreOnlyServiceHasNoStorage ==
    /\ ~svc.storage
    /\ cfg.R2Endpoint = "" /\ cfg.R2BucketName = ""
    /\ store = {}
    /\ rs.backup # IdleRun
         => /\ rs.backup.err = "storage is not initialized"
            /\ rs.backup.outcome = "failure"
            /\ rs.backup.stages = <<>>
            /\ rs.backup.result = NilResult
            /\ DOMAIN fs = {}

\* CreateBackup was refused and the restore of the same service succeeded
C26_Witness ==
    /\ rs.backup # IdleRun
    /\ rs.backup.err = "storage is not initialized"
    /\ rs.pc = "returned"
    /\ rs.err = ""
    /\ rs.ret \in DOMAIN rs.files
    /\ ~svc.storage

\* the delay before jitter of retry number k, in milliseconds
UnjitteredDelay(baseDelay, maxDelay, k) ==
    Min(maxDelay * MillisPerSecond, baseDelay * MillisPerSecond * Pow2(k))

\* C27: for retry number k (0 for the first re-attempt) the wait before the
\* re-attempt lies within [0.75 d, 1.25 d] with d = min(maxDelay,
\* baseDelay * 2^k); so it is never more than 1.25 maxDelay, never negative,
\* and d does not decrease with k.
C27_BackoffWithinJitterBounds ==
    rt.pc = "wait"
        => LET k == rt.attempt - 1
               d == UnjitteredDelay(rt.baseDelay, rt.maxDelay, k)
           IN  /\ k >= 0
               /\ 4 * rt.delay >= 3 * d
               /\ 4 * rt.delay <= 5 * d
               /\ 4 * rt.delay <= 5 * rt.maxDelay * MillisPerSecond
               /\ rt.delay >= 0
               /\ \A j \in 0..(k - 1) :
                    UnjitteredDelay(rt.baseDelay, rt.maxDelay, j)
                      <= UnjitteredDelay(rt.baseDelay, rt.maxDelay, j + 1)

\* the second re-attempt waits the capped delay with the least jitter
C27_Witness ==
    /\ rt.pc = "wait"
    /\ rt.attempt = 2
    /\ rt.baseDelay * Pow2(1) > rt.maxDelay
    /\ 4 * rt.delay = 3 * rt.maxDelay * MillisPerSecond

\* the operations of the requests an upload sends
UploadOps ==
    {"PutObject", "CreateMultipartUpload", "UploadPart", "CompleteMultipartUpload"}

\* C28: every request sent to the object store runs under the retry policy:
\* when an upload has failed on a server-side 503 of any of its requests
\* (the single-shot put, the create-session, upload-part or complete-session
\* request), that request was re-attempted until the retries were used up,
\* not given up at the first failure.
C28_EveryRequestRetried ==
    (up.pc = "returned" /\ up.cause \in {Transient(op) : op \in UploadOps})
        => up.tries = UploadMaxRetries + 1

\* the single-shot put was re-attempted after a 503 and then succeeded
C28_PutRetried ==
    /\ up.pc = "returned"
    /\ up.ret = ""
    /\ up.strategy = "simple"
    /\ up.tries = 2
    /\ up.requests = <<Request("PutObject", 0), Request("PutObject", 0)>>

\* the tails of the six texts isRetryableError knows: the 5xx answers, the
\* 429, the deadline and the TLS-handshake timeout
RetryableTails ==
    { "https response error StatusCode: 500",
      "https response error StatusCode: 500, RequestID: , HostID: , api error InternalError: We encountered an internal error. Please try again.",
      "https response error StatusCode: 503",
      "https response error StatusCode: 429",
      "context deadline exceeded",
      "net/http: TLS handshake timeout" }

\* err is of a retryable class, whatever operation produced it
RetryableClass(err) ==
    \E o \in RetryOperations, tail \in RetryableTails : err = S3Error(o.op, tail)

\* C29: the classification depends on the class of the error only: a call
\* whose operation (Upload, Download, Delete or List alike) failed last with
\* an error of a retryable class does not return that error at once as a
\* terminal one, it returns only when the retries are used up (or the context
\* is done); an error outside these classes is returned at once.
C29_ClassDecidesRetry ==
    (rt.pc = "returned" /\ rt.lastErr # "" /\ rt.ret \notin CtxErrors \cup {""}) =>
        IF RetryableClass(rt.lastErr)
        THEN /\ rt.ret = WrapExhausted(rt.name, rt.maxRetries, rt.lastErr)
             /\ rt.attempt = rt.maxRetries
        ELSE rt.ret = rt.lastErr

\* a download whose GetObject was answered with a 500 came back at once
C29_DownloadNotRetried ==
    /\ rt.pc = "returned"
    /\ rt.op = "GetObject"
    /\ rt.lastErr = ErrGet500
    /\ rt.ret = ErrGet500
    /\ rt.calls = 1
    /\ rt.maxRetries >= 1

\* C30: key material is resolved as its base64 decoding whenever
\* DecodeString accepts it and yields at least one byte, and as the raw bytes
\* of the string in every other case; the cipher key is the digest of the
\* resolved bytes and the authentication key is the digest of the cipher key
\* followed by "hmac"; the same string yields the same pair again, and the
\* two keys differ.
C30_KeyResolutionAndDerivation ==
    (kd.pc = "returned" /\ kd.input # "")
        => /\ kd.decoded >= 1
                => kd.resolved = [form |-> "base64", text |-> kd.input,
                                  len |-> kd.decoded]
           /\ kd.decoded < 1
                => kd.resolved = [form |-> "raw", text |-> kd.input,
                                  len |-> Len(kd.input)]
           /\ kd.err = ""
                => /\ kd.encKey = <<"sha256", kd.resolved>>
                   /\ kd.hmacKey = <<"sha256", kd.encKey, "hmac">>
                   /\ kd.encKey # kd.hmacKey
           /\ DeriveEncryptionKeys(kd.input)
                = [err |-> kd.err, encKey |-> kd.encKey, hmacKey |-> kd.hmacKey]

\* base64 text of 44 characters was resolved to its 32 decoded bytes and
\* the two keys were derived from them
C30_Witness ==
    /\ kd.pc = "returned"
    /\ kd.input = B64Key
    /\ kd.resolved.form = "base64"
    /\ kd.resolved.len = MinKeyBytes
    /\ kd.resolved.len < Len(kd.input)
    /\ kd.err = ""
    /\ kd.hmacKey = <<"sha256", kd.encKey, "hmac">>

\* C31: after a failed download no container file is left behind: on a
\* status other than 200 the call fails with the download-failed error and
\* no local file was created; when the copy of the body to the file or the
\* close of the file fails, the file that was created is deleted before the
\* error is returned; in every case neither DecryptFile nor the decompression
\* ran.
C31_FailedDownloadLeavesNoFile ==
    (rs.pc = "returned" /\ rs.requests = 1 /\ ~rs.downloaded)
        => /\ rs.ret = ""
           /\ rs.err # ""
           /\ rs.encryptedPath \notin DOMAIN rs.files
           /\ rs.files = NoFiles
           /\ rs.stages = <<>>
           /\ HasPrefix(rs.err, "download failed with status: ") => ~rs.created
           /\ rs.created
                => \/ HasPrefix(rs.err, "failed to save downloaded file: ")
                   \/ HasPrefix(rs.err, "failed to close downloaded file: ")

\* the copy of the body failed after the file was created, and the file is
\* gone
C31_Witness ==
    /\ rs.pc = "returned"
    /\ rs.requests = 1
    /\ rs.created
    /\ ~rs.downloaded
    /\ HasPrefix(rs.err, "failed to save downloaded file: ")
    /\ rs.files = NoFiles

\* the name that is left of key K when prefix P and the separating slash
\* are removed; K itself with no prefix
LogicalName(prefix, key) ==
    IF prefix = "" THEN key
    ELSE SubSeq(key, Len(CleanEnd(prefix)) + 2, Len(key))

\* C32: for every configured prefix (empty, without or with a slash at its
\* end) and every key the store returns for the list request, List returns
\* the key without the prefix and the separating slash, and Delete of that
\* name addresses exactly that key again: a successful Delete removes the
\* object of that key and no other.
C32_ListedNameAddressesItsKey ==
    /\ ls.pc = "listed"
         => /\ Len(ls.names) = Len(ls.keys)
            /\ \A i \in 1..Len(ls.keys) :
                 /\ HasPrefix(ls.keys[i], CleanEnd(cfg.R2Prefix) \o "/")
                      \/ cfg.R2Prefix = ""
                 /\ ls.names[i] = LogicalName(cfg.R2Prefix, ls.keys[i])
    /\ (ls.pc = "returned" /\ ls.key # "")
         => /\ ls.addressed = ls.key
            /\ ls.err = "" => store = {o \in ls.before : o.key # ls.key}

\* with the prefix bk the name listed for the key bkup/m1.enc deleted the
\* object bk/p/m1.enc
C32_OtherKeyDeleted ==
    /\ ls.pc = "returned"
    /\ cfg.R2Prefix = "bk"
    /\ ls.key = "bkup/m1.enc"
    /\ ls.addressed = "bk/p/m1.enc"
    /\ ls.err = ""
    /\ \E o \in ls.before : o.key = "bk/p/m1.enc"
    /\ \A o \in store : o.key # "bk/p/m1.enc"
    /\ \E o \in store : o.key = "bkup/m1.enc"

\* with the prefix bk/ the name listed for bk/m1.enc lost its first letter
C32_TrailingSlashCutsName ==
    /\ ls.pc = "listed"
    /\ cfg.R2Prefix = "bk/"
    /\ ls.keys[1] = "bk/m1.enc"
    /\ ls.names[1] = "1.enc"

\* CreateBackup of run r has returned a nil error and runBackup has not
\* yet handed the result to the notification
ReturnedNil(r) == run[r].pc = "notify" /\ run[r].outcome = "success"

\* C33: on every successful CreateBackup, result.FileName is the remote name
\* that was passed to Upload in that run, result.FileSize is the size of the
\* local file that was uploaded, and result.DownloadURL is what that Upload
\* returned.
C33_ResultDescribesTheUpload ==
    \A r \in Runs :
        ReturnedNil(r)
            => /\ run[r].result.FileName = run[r].upName
               /\ run[r].upPath = UseFilePath(r)
               /\ run[r].result.FileSize = run[r].upSize
               /\ run[r].result.DownloadURL = run[r].url
               /\ run[r].url = DownloadURL(PathJoin(cfg.R2Prefix, run[r].upName))

\* a run with a key has returned the name, the size and the reference of
\* its upload
C33_Witness ==
    \E r \in Runs :
        /\ ReturnedNil(r)
        /\ cfg.EncryptionKey # ""
        /\ run[r].result.FileName = run[r].upName
        /\ run[r].upName = "misskey_" \o Timestamp(run[r].start) \o ".dump.zst.enc"
        /\ run[r].result.FileSize = NonceSize + CompressedSize + AuthTagSize
        /\ run[r].result.FileSize = run[r].upSize

\* C34: for every configured retention, 0 days included, the prune step of
\* a run never asks the store to delete the object that the same run has
\* just uploaded, and does not select it for deletion.
C34_PruneSparesOwnUpload ==
    \A r \in Runs :
        run[r].pc \in {"list", "delete", "notify"}
            => /\ \A i \in 1..Len(run[r].delReq) : run[r].delReq[i] # run[r].upName
               /\ \A i \in 1..Len(run[r].todo) : run[r].todo[i].Name # run[r].upName

\* with a retention of 0 days a run has deleted the object it uploaded
C34_OwnUploadDeleted ==
    \E r \in Runs :
        /\ cfg.BackupRetention = 0
        /\ run[r].pc = "notify"
        /\ run[r].outcome = "success"
        /\ \E i \in 1..Len(run[r].delReq) : run[r].delReq[i] = run[r].upName
        /\ \A o \in store : o.key # PathJoin(cfg.R2Prefix, run[r].upName)

\* C35: in a multi-part upload of a file of size S with chunk size C the
\* i-th UploadPart request carries the bytes [(i-1)*C, min(i*C, S)): the
\* ranges follow one another without gap or overlap from byte 0, each is
\* non-empty and at most C bytes long, only the last may be shorter than C,
\* the declared content length of each is the length of its range, and when
\* every part was sent the ranges end at S.
C35_PartsTileTheFile ==
    LET S == up.size
        C == ChunkSize
        part(i) == up.parts[i]
        n == Len(up.parts)
    IN  /\ \A i \in 1..n :
              /\ part(i).PartNumber = i
              /\ part(i).start = (i - 1) * C
              /\ part(i).end = Min(i * C, S)
              /\ part(i).start < part(i).end
              /\ part(i).end - part(i).start <= C
              /\ part(i).ContentLength = part(i).end - part(i).start
              /\ part(i).end - part(i).start < C => part(i).end = S
              /\ i > 1 => part(i).start = part(i - 1).end
        /\ \A i, j \in 1..n :
              i < j => part(i).end <= part(j).start
        /\ up.strategy = "multipart" /\ up.pc = "complete"
              => n > 0 /\ part(n).end = S
        /\ up.session = "completed" => n > 0 /\ part(n).end = S

\* a completed upload of two full chunks and a last part of one byte
C35_Witness ==
    /\ up.size = 2 * ChunkSize + 1
    /\ up.session = "completed"
    /\ Len(up.parts) = 3
    /\ up.parts[2].ContentLength = ChunkSize
    /\ up.parts[3].ContentLength = 1
    /\ up.parts[3].end = up.size

\* C36: for every configured MaxRetries, 0 and negative values included,
\* retryWithBackoff returns nil only after it invoked the operation at least
\* once and the last invocation returned nil, and it never invokes the
\* operation more than MaxRetries + 1 times.
C36_NilOnlyAfterSuccessfulCall ==
    /\ rt.pc = "returned" /\ rt.ret = ""
          => /\ rt.calls >= 1
             /\ rt.calls = rt.attempt + 1
    /\ rt.pc # "off" => rt.calls <= rt.maxRetries + 1

\* with a negative MAX_RETRIES the simple upload's retry wrapper has returned
\* nil and PutObject was never requested
C36_NilWithoutCall ==
    /\ rt.pc = "returned"
    /\ rt.ret = ""
    /\ rt.name = "simple upload to R2"
    /\ rt.maxRetries < 0
    /\ rt.calls = 0

\* CreateBackup of run r has returned to runBackup
Returned(r) == run[r].pc = "notify"

\* C37: CreateBackup returns a nil error exactly when the returned result has
\* Success = true; a non-nil error that comes with a result comes with
\* Success = false and with result.Error equal to the returned error; and
\* Success = true means that dump, compression, the configured encryption and
\* the upload were all completed in this run, none of them having failed.
C37_NilErrorIffSuccess ==
    \A r \in Runs :
        Returned(r)
            => /\ (run[r].err = "") <=> (~run[r].result.nil /\ run[r].result.Success)
               /\ (run[r].err # "" /\ ~run[r].result.nil)
                     => /\ ~run[r].result.Success
                        /\ run[r].result.Error = run[r].err
               /\ run[r].result.Success
                     => /\ run[r].failedAt = "none"
                        /\ run[r].stages = ExpectedStages
                        /\ cfg.EncryptionKey # "" => "encrypt" \in Range(run[r].stages)
                        /\ run[r].upName # ""
                        /\ run[r].outcome = "success"

\* the three kinds of return: no result with an error, a failed result with
\* its error, and a successful result with no error
C37_Witness ==
    /\ \E r \in Runs :
          /\ Returned(r)
          /\ run[r].result.nil
          /\ run[r].err # ""
    /\ \E r \in Runs :
          /\ Returned(r)
          /\ run[r].result.Success
          /\ run[r].err = ""
          /\ "encrypt" \in Range(run[r].stages)

\* a stage failed and the result carries the error that was returned
C37_FailedResult ==
    \E r \in Runs :
        /\ Returned(r)
        /\ ~run[r].result.nil
        /\ run[r].failedAt = "upload"
        /\ run[r].result.Error = run[r].err
        /\ run[r].err # ""

\* C38: once Scheduler.Stop has returned nil no backup run is in progress,
\* neither at the return nor later, and no run, cron-fired or the delayed
\* initial one, starts afterwards; and Stop returns its error when the
\* shutdown deadline passed while a run was still executing.
C38_StoppedMeansNoRun ==
    /\ (sd.pc = "stopped" /\ sd.ret = "")
          => /\ sd.running = {}
             /\ \A r \in Runs : ~Active(r)
             /\ started = sd.started
    /\ (sd.pc \in {"stopped", "exited"} /\ sd.ret # "") => sd.running # {}
    /\ (sd.pc = "exited" /\ sd.ret = "") => sd.running = {}

\* Stop has returned nil while the initial run was between its dump and its
\* upload
C38_InitialRunOutlivesStop ==
    \E r \in Runs :
        /\ sd.pc = "stopped"
        /\ sd.ret = ""
        /\ r \in sd.running
        /\ run[r].trigger = "initial"
        /\ run[r].pc \in {"compress", "encrypt", "upload"}

\* Stop has returned nil and the delayed initial run started after it
C38_InitialRunStartsAfterStop ==
    /\ sd.pc = "stopped"
    /\ sd.ret = ""
    /\ started > sd.started

\* Stop has returned its error with a cron-fired run in progress
C38_DeadlineWithCronRun ==
    \E r \in Runs :
        /\ sd.pc = "stopped"
        /\ sd.ret # ""
        /\ r \in sd.running
        /\ run[r].trigger = "cron"

\* run r is inside CreateBackup, its file names chosen
Executing(r) == run[r].pc \in InCreateBackup

\* C39: any two runs whose executions overlap use pairwise different local
\* paths for their dump, compressed and encrypted files, so that neither
\* removes or overwrites a file of the other.
C39_OverlappingRunsUseDistinctPaths ==
    \A r, q \in Runs :
        (r # q /\ Executing(r) /\ Executing(q))
            => RunFiles(r) \cap RunFiles(q) = {}

\* two runs started in the same minute: the first has returned and its
\* deferred removals took the dump file the second is compressing
C39_OtherRunRemovedDump ==
    \E r, q \in Runs :
        /\ r # q
        /\ run[r].start = run[q].start
        /\ run[r].pc = "notify"
        /\ run[q].pc = "compress"
        /\ ~Exists(fs, BackupFilePath(q))

====
